---- MODULE Spec2Model ----
(***************************************************************************)
(* A model of the streaming translator (src/core/streaming.py) of the      *)
(* Claude <-> DeepSeek proxy, of the stream session registry that gates    *)
(* it (AsyncStreamProcessor) and of the generator in src/main.py that      *)
(* feeds the translated events to the client.                              *)
(*                                                                         *)
(* The specifications share the pure translation operators:                *)
(*   SpecTranslate  one stream_openai_to_claude generator, driven to the  *)
(*                  end by its consumer, over every bounded sequence of   *)
(*                  upstream lines;                                       *)
(*   SpecFrames     the same generator over longer sequences of the few   *)
(*                  frames of a plain exchange;                           *)
(*   SpecServer     several requests running handle_streaming_request /   *)
(*                  process_stream concurrently on one event loop, with   *)
(*                  the semaphore, active_streams and client disconnects, *)
(*                  as src/main.py runs them;                             *)
(*   SpecRegistry   SpecServer with a caller of cleanup_stale_streams:    *)
(*                  the clock and the stale sweep as well;                *)
(*   SpecWide       SpecServer behind a gate as wide as the requests;     *)
(*   SpecRequest    create_message's pipeline from the downstream to the  *)
(*                  upstream request;                                     *)
(*   SpecResponse   handle_non_streaming_request from the upstream's      *)
(*                  answer to the client's;                               *)
(*   SpecLimiter    RateLimiter (src/utils/auth.py);                      *)
(*   SpecCache      MemoryCache (src/utils/cache.py).                     *)
(***************************************************************************)
EXTENDS Integers, Sequences, FiniteSets, TLC

(***************************************************************************)
(* Bounds of the model.                                                    *)
(***************************************************************************)
\* upstream lines delivered to the one stream of SpecTranslate
MaxChunks == 3
\* concurrent requests of SpecRegistry
NStreams == 2
\* AsyncStreamProcessor(max_concurrent): the size of the semaphore
MaxConcurrent == 1
\* upstream lines delivered to each stream of SpecRegistry
MaxRegChunks == 1
\* seconds between two readings of the loop's clock that differ
TickSeconds == 300
\* upstream lines delivered to the one stream of SpecFrames
MaxFrames == 4
\* characters of the text of a non-streaming upstream message
MaxText == 4
\* tool calls of a non-streaming upstream message
MaxToolCalls == 2
\* messages of a downstream request
MaxMessages == 2
\* tools declared by a downstream request
MaxTools == 3
\* RateLimiter(requests_per_minute)
requests_per_minute == 2
\* calls of RateLimiter.is_allowed
MaxCalls == 4
\* readings of the limiter's clock after the first
MaxClockSteps == 3
\* MemoryCache(max_size)
max_size == 2
\* uses of the cache: calls of set, and calls of get that find their key
MaxUses == 4
\* the last reading of the cache's clock
MaxCacheClock == 2

(***************************************************************************)
(* Upstream lines.  A line is described by what _parse_openai_chunk and    *)
(* _convert_chunk_to_claude read of it.  Absent is a missing key, Null a   *)
(* JSON null.                                                              *)
(***************************************************************************)
Absent == "<absent>"
Null == "<null>"

\* raw:     blank        whitespace only
\*          noprefix     does not start with "data: "
\*          undecodable  bytes that are not UTF-8
\*          done         "data: [DONE]"
\*          badjson      "data: " followed by something json.loads rejects
\*          json         "data: " followed by a JSON document
\* shape (of the JSON document):
\*          nonobject    a list, number or string
\*          nochoices    an object without "choices", or with [] / null
\*          badchoice    "choices" whose first element is not an object
\*          choice       "choices"[0] is an object with the fields below
Line(raw, shape, content, tool, name, args, id, finish, usage) ==
    [raw |-> raw, shape |-> shape, content |-> content, tool |-> tool,
     name |-> name, args |-> args, id |-> id, finish |-> finish, usage |-> usage]

RawLine(raw) == Line(raw, Absent, Absent, Absent, Absent, Absent, Absent, Absent, Absent)
JsonLine(shape) == Line("json", shape, Absent, Absent, Absent, Absent, Absent, Absent, Absent)
\* {"choices":[{"delta":{"content":c},"finish_reason":f}]}
TextLine(c, f) == Line("json", "choice", c, Absent, Absent, Absent, Absent, f, Absent)
\* {"choices":[{"delta":{"tool_calls":[{"id":id,"function":{"name":n,"arguments":a}}]},"finish_reason":f}]}
ToolLine(id, n, a, f) == Line("json", "choice", Absent, "call", n, a, id, f, Absent)
\* {"choices":[{"delta":{},"finish_reason":f}],"usage":u}
FinishLine(f, u) == Line("json", "choice", Absent, Absent, Absent, Absent, Absent, f, u)

Lines ==
    { RawLine("blank"), RawLine("noprefix"), RawLine("undecodable"),
      RawLine("badjson"), RawLine("done"),
      JsonLine("nonobject"), JsonLine("nochoices"), JsonLine("badchoice"),
      TextLine("Hi", Absent), TextLine("", Absent), TextLine("Hi", "stop"),
      ToolLine("call_1", "get_weather", "{\"a\"", Absent),
      ToolLine(Absent, Absent, ":1}", Absent),
      ToolLine(Absent, Absent, ":1}", "tool_calls"),
      FinishLine("stop", "usage"), FinishLine("length", Absent) }

(***************************************************************************)
(* Downstream events.                                                      *)
(***************************************************************************)
NoIndex == -1

\* type   the JSON field "type"
\* index  the JSON field "index" (NoIndex when the event has none)
\* kind   content_block.type / delta.type / delta.stop_reason / error.type
\* text   delta.text / delta.partial_json / content_block.name / error.message
\* id     content_block.id / message.id
\* usage  the "usage" field of message_delta
\* wire   how the item is framed on the wire ("" until it is formatted)
Event(type, index, kind, text, id, usage) ==
    [type |-> type, index |-> index, kind |-> kind, text |-> text,
     id |-> id, usage |-> usage, wire |-> ""]

NoEvent == Event("<none>", NoIndex, "", "", "", "")

SseWire == "event: message\ndata: <compact JSON>\n\n"

format_sse_event(data) == [data EXCEPT !.wire = SseWire]

MessageStart(request_id) == Event("message_start", NoIndex, "", "", request_id, "")
ContentBlockStart0 == Event("content_block_start", 0, "text", "", "", "")
ContentBlockStop0 == Event("content_block_stop", 0, "", "", "", "")
MessageStop == Event("message_stop", NoIndex, "", "", "", "")
ErrorEvent == Event("error", NoIndex, "api_error", "Streaming error occurred", "", "")

\* str(e) of the exceptions a stream can fail with
Exceptions ==
    { "ClientPayloadError: Response payload is not completed",
      "KeyError: 'req'" }

\* an error event that carries str(e)
leaking_error_event(e) == Event("error", NoIndex, "api_error", e, "", "")

\* lines 93-101: the handler logs e and yields the fixed event
stream_error_event(e) == ErrorEvent

\* a mapper that hands the upstream reason through
unmapped_finish_reason(openai_reason) == openai_reason

(***************************************************************************)
(* _convert_finish_reason                                                  *)
(***************************************************************************)
convert_finish_reason(openai_reason) ==
    CASE openai_reason = "stop" -> "end_turn"
      [] openai_reason = "length" -> "max_tokens"
      [] openai_reason = "function_call" -> "tool_use"
      [] openai_reason = "tool_calls" -> "tool_use"
      [] openai_reason = "content_filter" -> "stop_sequence"
      [] OTHER -> "end_turn"

(***************************************************************************)
(* _parse_openai_chunk: the document handed to _convert_chunk_to_claude,   *)
(* or "none" when the line is dropped.  "[DONE]" becomes the document      *)
(* {"finish_reason": "stop"}, an object that has no "choices".             *)
(***************************************************************************)
parse_openai_chunk(chunk) ==
    CASE chunk.raw = "undecodable" -> "none"
      [] chunk.raw = "blank" -> "none"
      [] chunk.raw = "noprefix" -> "none"
      [] chunk.raw = "done" -> "nochoices"
      [] chunk.raw = "badjson" -> "none"
      [] OTHER -> chunk.shape

\* Python truthiness of a finish_reason value (line 174)
Truthy(v) == v \notin {Absent, Null, ""}

\* a converter that looks at the finish reason first
convert_choice_finish_first(c) ==
    IF Truthy(c.finish)
    THEN Event("message_delta", NoIndex, convert_finish_reason(c.finish), "", "",
               IF c.usage = Absent THEN "{}" ELSE c.usage)
    ELSE IF c.content \notin {Absent, Null}
    THEN Event("content_block_delta", 0, "text_delta", c.content, "", "")
    ELSE IF c.tool = "call" /\ c.name # Absent
    THEN Event("content_block_start", 1, "tool_use", c.name,
               IF c.id = Absent THEN "" ELSE c.id, "")
    ELSE IF c.tool = "call" /\ c.args # Absent
    THEN Event("content_block_delta", 1, "input_json_delta", c.args, "", "")
    ELSE NoEvent

(***************************************************************************)
(* _convert_chunk_to_claude on a line whose document is an object with a   *)
(* usable choices[0]: first match of text, tool call, finish reason.       *)
(***************************************************************************)
convert_choice(c) ==
    IF c.content \notin {Absent, Null}
    THEN Event("content_block_delta", 0, "text_delta", c.content, "", "")
    ELSE IF c.tool = "call" /\ c.name # Absent
    THEN Event("content_block_start", 1, "tool_use", c.name,
               IF c.id = Absent THEN "" ELSE c.id, "")
    ELSE IF c.tool = "call" /\ c.args # Absent
    THEN Event("content_block_delta", 1, "input_json_delta", c.args, "", "")
    ELSE IF Truthy(c.finish)
    THEN Event("message_delta", NoIndex, convert_finish_reason(c.finish), "", "",
               IF c.usage = Absent THEN "{}" ELSE c.usage)
    ELSE NoEvent

\* the per-chunk body without the handler of lines 77-80: what
\* _convert_chunk_to_claude raises reaches the outer handler
chunk_event_uncaught(chunk) ==
    LET doc == parse_openai_chunk(chunk) IN
    CASE doc = "none" -> NoEvent
      [] doc = "nonobject" -> ErrorEvent
      [] doc = "nochoices" -> NoEvent
      [] doc = "badchoice" -> ErrorEvent
      [] OTHER -> convert_choice(chunk)

\* The body of the per-chunk try block (lines 70-80): the event to yield,
\* or NoEvent.  A document that is not an object, or whose choices[0] is not
\* one, raises inside _convert_chunk_to_claude; the inner handler catches it
\* and the loop continues.
chunk_event(chunk) ==
    LET doc == parse_openai_chunk(chunk) IN
    CASE doc = "none" -> NoEvent
      [] doc = "nonobject" -> NoEvent
      [] doc = "nochoices" -> NoEvent
      [] doc = "badchoice" -> NoEvent
      [] OTHER -> convert_choice(chunk)

(***************************************************************************)
(* SpecTranslate: one stream_openai_to_claude generator.                   *)
(*   t_pc    where the generator is:                                       *)
(*             start    not started                                        *)
(*             opening  suspended at the yield of message_start            *)
(*             loop     at "async for chunk in openai_stream"              *)
(*             closing  suspended at the yield of content_block_stop       *)
(*             last     suspended at the yield of message_stop or error    *)
(*             done     returned                                           *)
(*   t_out   the events yielded so far                                     *)
(*   t_in    the upstream lines pulled so far                              *)
(*   t_end   how the upstream ended: "" (not yet), "eof", "raise"          *)
(***************************************************************************)
VARIABLES t_pc, t_out, t_in, t_end

tvars == <<t_pc, t_out, t_in, t_end>>

(***************************************************************************)
(* The variables of SpecRegistry (described with its actions below).       *)
(***************************************************************************)
VARIABLES pc, out, gone, resp,
          sem_value, sem_waiters, active_streams

rvars == <<pc, out, gone, resp,
           sem_value, sem_waiters, active_streams>>

(***************************************************************************)
(* The variables of the non-streaming path (described with SpecRequest and *)
(* SpecResponse below).                                                    *)
(***************************************************************************)
VARIABLES q_pc, q_in, q_req, n_pc, n_doc, n_msg, n_res

hvars == <<q_pc, q_in, q_req, n_pc, n_doc, n_msg, n_res>>

\* the rate limiter and the memory cache of src/utils: the clock each of them
\* reads, RateLimiter.requests, the outcomes of the calls of is_allowed so
\* far; MemoryCache.cache in its order, MemoryCache.access_times, and for
\* every cached key the number its last use has among all uses
VARIABLES l_now, l_requests, l_log, c_now, c_cache, c_access, c_stamp, c_uses

uvars == <<l_now, l_requests, l_log, c_now, c_cache, c_access, c_stamp, c_uses>>

vars == <<tvars, rvars, hvars, uvars>>

\* the requests; request s has request_id s (a fresh uuid4 in main.py)
Streams == 1..NStreams

TRequestId == "req"

\* the registry before any request
RIdle ==
    /\ pc = [s \in Streams |-> "idle"]
    /\ out = [s \in Streams |-> <<>>]
    /\ gone = [s \in Streams |-> FALSE]
    /\ resp = [s \in Streams |-> "none"]
    /\ sem_value = MaxConcurrent
    /\ sem_waiters = <<>>
    /\ active_streams = <<>>

\* no non-streaming request yet
HIdle ==
    /\ q_pc = "idle"
    /\ q_in = <<>>
    /\ q_req = <<>>
    /\ n_pc = "idle"
    /\ n_doc = <<>>
    /\ n_msg = <<>>
    /\ n_res = <<>>

\* a limiter and a cache as their constructors leave them
Identifiers == {"alice", "bob"}

UIdle ==
    /\ l_now = 0
    /\ l_requests = [identifier \in Identifiers |-> <<>>]
    /\ l_log = <<>>
    /\ c_now = 0
    /\ c_cache = <<>>
    /\ c_access = <<>>
    /\ c_stamp = <<>>
    /\ c_uses = 0

\* the translator before it is started
TIdle ==
    /\ t_pc = "start"
    /\ t_out = <<>>
    /\ t_in = <<>>
    /\ t_end = ""

InitTranslate == TIdle /\ RIdle /\ HIdle /\ UIdle

\* lines 47-57
TStart ==
    /\ t_pc = "start"
    /\ t_out' = Append(t_out, format_sse_event(MessageStart(TRequestId)))
    /\ t_pc' = "opening"
    /\ UNCHANGED <<t_in, t_end, rvars, hvars, uvars>>

\* TOpen as it would be without the yield of lines 60-67
TOpenDeferred ==
    /\ t_pc = "opening"
    /\ t_pc' = "loop"
    /\ UNCHANGED <<t_out, t_in, t_end, rvars, hvars, uvars>>

\* lines 60-67
TOpen ==
    /\ t_pc = "opening"
    /\ t_out' = Append(t_out, format_sse_event(ContentBlockStart0))
    /\ t_pc' = "loop"
    /\ UNCHANGED <<t_in, t_end, rvars, hvars, uvars>>

\* lines 69-80: the upstream delivers one more line
TChunk ==
    /\ t_pc = "loop"
    /\ Len(t_in) < MaxChunks
    /\ \E chunk \in Lines :
         /\ t_in' = Append(t_in, chunk)
         /\ t_out' = IF chunk_event(chunk) = NoEvent
                     THEN t_out
                     ELSE Append(t_out, format_sse_event(chunk_event(chunk)))
    /\ UNCHANGED <<t_pc, t_end, rvars, hvars, uvars>>

\* TEof as it would be without the yield of lines 83-86
TEofWithoutBlockStop ==
    /\ t_pc = "loop"
    /\ t_pc' = "closing"
    /\ t_end' = "eof"
    /\ UNCHANGED <<t_out, t_in, rvars, hvars, uvars>>

\* lines 69, 83-86: the upstream is exhausted
TEof ==
    /\ t_pc = "loop"
    /\ t_out' = Append(t_out, format_sse_event(ContentBlockStop0))
    /\ t_pc' = "closing"
    /\ t_end' = "eof"
    /\ UNCHANGED <<t_in, rvars, hvars, uvars>>

\* lines 89-91
TMessageStop ==
    /\ t_pc = "closing"
    /\ t_out' = Append(t_out, format_sse_event(MessageStop))
    /\ t_pc' = "last"
    /\ UNCHANGED <<t_in, t_end, rvars, hvars, uvars>>

\* a TRaise that can also happen once the loop is over
TRaiseAnywhere ==
    /\ t_pc \in {"loop", "closing", "last"}
    /\ \E e \in Exceptions :
         t_out' = Append(t_out, format_sse_event(stream_error_event(e)))
    /\ t_pc' = "last"
    /\ t_end' = "raise"
    /\ UNCHANGED <<t_in, rvars, hvars, uvars>>

\* lines 69, 93-101: pulling the next line raises
TRaise ==
    /\ t_pc = "loop"
    /\ \E e \in Exceptions :
         t_out' = Append(t_out, format_sse_event(stream_error_event(e)))
    /\ t_pc' = "last"
    /\ t_end' = "raise"
    /\ UNCHANGED <<t_in, rvars, hvars, uvars>>

\* the generator returns
TReturn ==
    /\ t_pc = "last"
    /\ t_pc' = "done"
    /\ UNCHANGED <<t_out, t_in, t_end, rvars, hvars, uvars>>

NextTranslate ==
    \/ TStart
    \/ TOpen
    \/ TChunk
    \/ TEof
    \/ TMessageStop
    \/ TRaise
    \/ TReturn

SpecTranslate == InitTranslate /\ [][NextTranslate]_vars

(***************************************************************************)
(* SpecFrames: the same generator, its upstream delivering up to MaxFrames *)
(* of the frames of a plain exchange.                                      *)
(***************************************************************************)
Frames ==
    { TextLine("Hi", Absent), TextLine(" there", Absent),
      FinishLine("stop", Absent), RawLine("done"),
      ToolLine("call_1", "get_weather", Absent, Absent),
      RawLine("badjson") }

\* a translator that holds the event back when it pulls the next line
TFrameBuffered ==
    /\ t_pc = "loop"
    /\ Len(t_in) < MaxFrames
    /\ \E chunk \in Frames : t_in' = Append(t_in, chunk)
    /\ UNCHANGED <<t_out, t_pc, t_end, rvars, hvars, uvars>>

\* lines 69-80: the upstream delivers one more frame
TFrame ==
    /\ t_pc = "loop"
    /\ Len(t_in) < MaxFrames
    /\ \E chunk \in Frames :
         /\ t_in' = Append(t_in, chunk)
         /\ t_out' = IF chunk_event(chunk) = NoEvent
                     THEN t_out
                     ELSE Append(t_out, format_sse_event(chunk_event(chunk)))
    /\ UNCHANGED <<t_pc, t_end, rvars, hvars, uvars>>

NextFrames ==
    \/ TStart
    \/ TOpen
    \/ TFrame
    \/ TEof
    \/ TMessageStop
    \/ TRaise
    \/ TReturn

SpecFrames == InitTranslate /\ [][NextFrames]_vars

(***************************************************************************)
(* Properties of the translator, checked under SpecTranslate.              *)
(***************************************************************************)
\* the places in t_out of the events of one type and index
TPos(type, index) ==
    { i \in 1..Len(t_out) : t_out[i].type = type /\ t_out[i].index = index }

TBlockEvents ==
    { i \in 1..Len(t_out) :
        t_out[i].type \in {"content_block_start", "content_block_delta",
                           "content_block_stop"} }

\* C1: when the upstream delivers its lines without raising, the finished
\* stream holds exactly one message_start, one content_block_start(0), one
\* content_block_stop(0) and one message_stop, in that order, and every
\* index-0 content_block_delta lies between the index-0 start and stop.
C1_FramedExactlyOnce ==
    (t_pc = "done" /\ t_end = "eof") =>
        LET starts == TPos("message_start", NoIndex)
            opens == TPos("content_block_start", 0)
            closes == TPos("content_block_stop", 0)
            stops == TPos("message_stop", NoIndex)
        IN /\ Cardinality(starts) = 1
           /\ Cardinality(opens) = 1
           /\ Cardinality(closes) = 1
           /\ Cardinality(stops) = 1
           /\ \A a \in starts, b \in opens : a < b
           /\ \A b \in opens, c \in closes : b < c
           /\ \A c \in closes, d \in stops : c < d
           /\ \A i \in TPos("content_block_delta", 0) :
                 /\ \A b \in opens : b < i
                 /\ \A c \in closes : i < c

\* a finished stream of two or more lines, a text delta among its events
C1_Witness ==
    /\ t_pc = "done"
    /\ t_end = "eof"
    /\ Len(t_in) >= 2
    /\ TPos("content_block_delta", 0) # {}

\* C2: on every termination path, also when the upstream raises, the
\* finished stream holds exactly one message_stop, after every content-block
\* event.
C2_MessageStopOnEveryPath ==
    t_pc = "done" =>
        \E d \in 1..Len(t_out) :
            /\ TPos("message_stop", NoIndex) = {d}
            /\ \A i \in TBlockEvents : i < d

\* C3: a stream interrupted by an exception out of the per-chunk handling
\* holds exactly one error event, followed by content_block_stop(0) and then
\* message_stop.
C3_ErrorThenCloseSequence ==
    (t_pc = "done" /\ t_end = "raise") =>
        \E e \in 1..Len(t_out) :
            /\ TPos("error", NoIndex) = {e}
            /\ Len(t_out) = e + 2
            /\ t_out[e + 1].type = "content_block_stop"
            /\ t_out[e + 1].index = 0
            /\ t_out[e + 2].type = "message_stop"

\* the upstream lines that supply a function name in their tool-call delta
NamesFunction(chunk) ==
    /\ parse_openai_chunk(chunk) = "choice"
    /\ chunk.tool = "call"
    /\ chunk.name # Absent

\* C4: content_block_start(1) is emitted at most once per stream, only for
\* a line whose tool-call delta supplies a function name, and before every
\* index-1 content_block_delta.
C4_ToolBlockOpenedOnce ==
    /\ Cardinality(TPos("content_block_start", 1)) <= 1
    /\ \A i \in TPos("content_block_delta", 1) :
          \E b \in TPos("content_block_start", 1) : b < i
    /\ TPos("content_block_start", 1) # {} =>
          \E k \in 1..Len(t_in) : NamesFunction(t_in[k])

\* the last event yielded
TLast(events) == events[Len(events)]

\* a line whose document is an object with a usable choices[0]
IsChoice(c) == c.raw = "json" /\ c.shape = "choice"

\* the lines that make the per-chunk body yield an event, in order
Producing(lines) == SelectSeq(lines, LAMBDA c : chunk_event(c) # NoEvent)

\* the events the per-chunk body has yielded, in order
TPayload ==
    SelectSeq(t_out, LAMBDA e :
        \/ e.type \in {"content_block_delta", "message_delta"}
        \/ e.type = "content_block_start" /\ e.index # 0)

\* C11: "data: [DONE]" ends translation: the line yields no event, and no
\* line that arrives after it yields a content_block_delta,
\* content_block_start or message_delta.
C11_SentinelEndsTranslation ==
    \A k \in 1..Len(t_in) :
        t_in[k].raw = "done" =>
            Len(TPayload) = Len(Producing(SubSeq(t_in, 1, k - 1)))

\* the lines C12 calls malformed
Malformed(c) ==
    \/ c.raw \in {"noprefix", "undecodable", "badjson"}
    \/ c.raw = "json" /\ c.shape \in {"nonobject", "nochoices", "badchoice"}

\* C12: a malformed line yields nothing and ends nothing: the events are
\* those of the upstream with its malformed lines taken out, no error event
\* appears unless the upstream itself raises, and a stream whose upstream
\* ends closes with content_block_stop(0) and message_stop.
C12_MalformedLinesSkipped ==
    LET good == Producing(SelectSeq(t_in, LAMBDA c : ~Malformed(c))) IN
    /\ t_pc \in {"loop", "closing", "last", "done"} =>
          /\ Len(t_out) >= 2 + Len(good)
          /\ \A i \in 1..Len(good) :
                t_out[2 + i] = format_sse_event(chunk_event(good[i]))
    /\ t_end # "raise" => TPos("error", NoIndex) = {}
    /\ t_pc = "loop" => Len(t_out) = 2 + Len(good)
    /\ (t_pc = "done" /\ t_end = "eof") =>
          /\ Len(t_out) = 2 + Len(good) + 2
          /\ t_out[Len(t_out) - 1].type = "content_block_stop"
          /\ t_out[Len(t_out) - 1].index = 0
          /\ TLast(t_out).type = "message_stop"

\* a finished stream with a malformed line before a text frame
C12_Witness ==
    /\ t_pc = "done"
    /\ t_end = "eof"
    /\ \E j, k \in 1..Len(t_in) :
          /\ j < k
          /\ t_in[j] = JsonLine("badchoice")
          /\ t_in[k] = TextLine("Hi", Absent)
    /\ \E j \in 1..Len(t_in) : t_in[j] = RawLine("undecodable")

RECURSIVE Concat(_)
Concat(strings) ==
    IF strings = <<>> THEN "" ELSE Head(strings) \o Concat(Tail(strings))

\* the partial_json payloads of the index-1 input_json_delta events
PartialJson ==
    LET deltas == SelectSeq(t_out, LAMBDA e : e.kind = "input_json_delta")
    IN [i \in 1..Len(deltas) |-> deltas[i].text]

\* the `arguments` fragments of the upstream tool-call deltas
ArgumentFragments ==
    LET frames == SelectSeq(t_in, LAMBDA c :
                      IsChoice(c) /\ c.tool = "call" /\ c.args # Absent)
    IN [i \in 1..Len(frames) |-> frames[i].args]

\* the fragments of the deltas that carry neither text content nor a
\* function name
UnshadowedFragments ==
    LET frames == SelectSeq(t_in, LAMBDA c :
                      /\ IsChoice(c) /\ c.tool = "call" /\ c.args # Absent
                      /\ c.name = Absent /\ c.content \in {Absent, Null})
    IN [i \in 1..Len(frames) |-> frames[i].args]

\* C13 as stated: the partial_json payloads, concatenated, are the
\* `arguments` fragments of all upstream tool-call deltas, concatenated,
\* the fragment of a delta that also carries the function name included.
C13_AllArgumentsRelayed ==
    Concat(PartialJson) = Concat(ArgumentFragments)

\* C13: the partial_json payloads are, one by one and in order, the
\* `arguments` fragments of the tool-call deltas that carry neither text
\* content nor a function name; the fragment of a delta that names the
\* function is not relayed.
C13_UnshadowedArgumentsRelayed ==
    /\ PartialJson = UnshadowedFragments
    /\ Concat(PartialJson) = Concat(UnshadowedFragments)
    /\ \A i \in TPos("content_block_delta", 1) : t_out[i].kind = "input_json_delta"

\* the naming delta carried a fragment, two later deltas carried the rest
C13_Witness ==
    /\ t_in = << ToolLine("call_1", "get_weather", "{\"a\"", Absent),
                 ToolLine(Absent, Absent, ":1}", Absent),
                 ToolLine(Absent, Absent, ":1}", "tool_calls") >>
    /\ PartialJson = << ":1}", ":1}" >>
    /\ Concat(PartialJson) = ":1}:1}"

\* C14: a text delta is emitted for a frame exactly when the frame carries
\* non-empty text content: the text deltas are, in order, the non-empty
\* contents of the frames.
C14_TextDeltaIffNonEmpty ==
    LET deltas == SelectSeq(t_out, LAMBDA e : e.kind = "text_delta")
        frames == SelectSeq(t_in, LAMBDA c :
                      IsChoice(c) /\ c.content \notin {Absent, Null, ""})
    IN /\ Len(deltas) = Len(frames)
       /\ \A i \in 1..Len(deltas) : deltas[i].text # ""

\* C15: a frame yields at most one event, the first match of text delta,
\* tool-call delta, finish reason: text content with a finish reason yields
\* the text delta only, a tool-call delta with a finish reason the tool
\* event only.
C15_OneEventFirstMatch ==
    [][\A c \in Lines :
          t_in' = Append(t_in, c) =>
             /\ \/ t_out' = t_out
                \/ Len(t_out') = Len(t_out) + 1 /\ SubSeq(t_out', 1, Len(t_out)) = t_out
             /\ (IsChoice(c) /\ c.content \notin {Absent, Null} /\ Truthy(c.finish)) =>
                   /\ Len(t_out') = Len(t_out) + 1
                   /\ TLast(t_out').type = "content_block_delta"
                   /\ TLast(t_out').kind = "text_delta"
                   /\ TLast(t_out').text = c.content
             /\ (/\ IsChoice(c) /\ c.content \in {Absent, Null} /\ c.tool = "call"
                 /\ (c.name # Absent \/ c.args # Absent) /\ Truthy(c.finish)) =>
                   /\ Len(t_out') = Len(t_out) + 1
                   /\ TLast(t_out').type \in {"content_block_start", "content_block_delta"}
                   /\ TLast(t_out').index = 1]_vars

\* a finished stream that was sent a finish reason next to text and next to
\* a tool-call delta, and holds no message_delta
C15_Witness ==
    /\ t_pc = "done"
    /\ \E j, k \in 1..Len(t_in) :
          /\ t_in[j] = TextLine("Hi", "stop")
          /\ t_in[k] = ToolLine(Absent, Absent, ":1}", "tool_calls")
    /\ \A i \in 1..Len(t_out) : t_out[i].type # "message_delta"

\* a frame that carries a finish reason and neither text nor tool-call delta
FinishOnly(c) ==
    /\ IsChoice(c)
    /\ c.content \in {Absent, Null}
    /\ c.tool = Absent
    /\ Truthy(c.finish)

\* C16: a finish-reason frame yields one message_delta with the mapped
\* stop_reason and the frame's usage (empty when it has none) and leaves the
\* translator in its loop; the frames after it are translated as any other;
\* content_block_stop and message_stop appear only once the upstream ended.
C16_FinishDoesNotClose ==
    /\ [][\A c \in Lines :
             t_in' = Append(t_in, c) =>
                /\ t_pc' = "loop"
                /\ FinishOnly(c) =>
                      /\ Len(t_out') = Len(t_out) + 1
                      /\ SubSeq(t_out', 1, Len(t_out)) = t_out
                      /\ TLast(t_out').type = "message_delta"
                      /\ TLast(t_out').kind =
                            (CASE c.finish = "stop" -> "end_turn"
                               [] c.finish = "length" -> "max_tokens"
                               [] c.finish \in {"function_call", "tool_calls"} -> "tool_use"
                               [] c.finish = "content_filter" -> "stop_sequence"
                               [] OTHER -> "end_turn")
                      /\ TLast(t_out').usage = (IF c.usage = Absent THEN "{}" ELSE c.usage)
                /\ (\E i \in 1..Len(t_out) : t_out[i].type = "message_delta") =>
                      t_out' = IF chunk_event(c) = NoEvent THEN t_out
                               ELSE Append(t_out, format_sse_event(chunk_event(c)))]_vars
    /\ [](\A i \in 1..Len(t_out) :
             t_out[i].type \in {"content_block_stop", "message_stop"} => t_end = "eof")

\* a text delta was yielded after the message_delta of a finish-reason frame
C16_Witness ==
    /\ t_pc = "loop"
    /\ t_in = << FinishLine("length", Absent), TextLine("Hi", Absent) >>
    /\ Len(t_out) = 4
    /\ t_out[3].type = "message_delta" /\ t_out[3].kind = "max_tokens"
    /\ t_out[3].usage = "{}"
    /\ t_out[4].kind = "text_delta"

\* C18: message_start and then content_block_start(0, text) are the first
\* two events and are out before the first upstream line is pulled or the
\* upstream is found to have ended.
C18_FramingBeforeFirstPull ==
    /\ Len(t_out) >= 1 => t_out[1] = format_sse_event(MessageStart(TRequestId))
    /\ Len(t_out) >= 2 =>
          /\ t_out[2].type = "content_block_start"
          /\ t_out[2].index = 0
          /\ t_out[2].kind = "text"
          /\ t_out[2].text = ""
    /\ (Len(t_in) > 0 \/ t_end # "") => Len(t_out) >= 2

\* the upstream body held no line at all
C18_Witness ==
    /\ t_pc = "done"
    /\ t_end = "eof"
    /\ t_in = <<>>
    /\ Len(t_out) = 4

(***************************************************************************)
(* Properties of the translator, checked under SpecFrames.                 *)
(***************************************************************************)
\* the frames of the exchange "Hi there"
ExampleFrames ==
    << TextLine("Hi", Absent), TextLine(" there", Absent),
       FinishLine("stop", Absent), RawLine("done") >>

\* type, index, kind and text of each event
Shape(events) ==
    [i \in 1..Len(events) |->
        <<events[i].type, events[i].index, events[i].kind, events[i].text>>]

\* C17: the events of the frames stand in the order of the frames, each is
\* out before the next frame is pulled, each text delta carries the text of
\* its frame, and the frames "Hi", " there", finish_reason stop, [DONE] give
\* message_start, content_block_start(0), the two deltas,
\* message_delta(end_turn), content_block_stop(0), message_stop.
C17_OrderPreservedUnbuffered ==
    LET frames == Producing(t_in)
        texts == SelectSeq(t_in, LAMBDA c : IsChoice(c) /\ c.content \notin {Absent, Null})
        deltas == SelectSeq(t_out, LAMBDA e : e.kind = "text_delta")
    IN /\ t_pc \in {"loop", "closing", "last", "done"} =>
             /\ Len(t_out) >= 2 + Len(frames)
             /\ \A i \in 1..Len(frames) :
                   t_out[2 + i] = format_sse_event(chunk_event(frames[i]))
       /\ Len(deltas) = Len(texts)
       /\ \A i \in 1..Len(deltas) : deltas[i].text = texts[i].content
       /\ (t_in = ExampleFrames /\ t_pc = "done" /\ t_end = "eof") =>
             Shape(t_out) =
                << <<"message_start", NoIndex, "", "">>,
                   <<"content_block_start", 0, "text", "">>,
                   <<"content_block_delta", 0, "text_delta", "Hi">>,
                   <<"content_block_delta", 0, "text_delta", " there">>,
                   <<"message_delta", NoIndex, "end_turn", "">>,
                   <<"content_block_stop", 0, "", "">>,
                   <<"message_stop", NoIndex, "", "">> >>

\* the exchange "Hi there" has run to its end
C17_Witness ==
    /\ t_in = ExampleFrames
    /\ t_pc = "done"
    /\ t_end = "eof"
    /\ Len(t_out) = 7

(***************************************************************************)
(* SpecRegistry: requests s \in Streams, each running stream_generator     *)
(* (main.py), inside it process_stream, inside it stream_openai_to_claude. *)
(* All run on one event loop, so a step runs from one suspension to the    *)
(* next.                                                                   *)
(*   pc[s]     idle      no request yet                                    *)
(*             post      awaiting the answer to http_client.post           *)
(*             rejected  suspended at the yield of line 233 (status # 200) *)
(*             failed    suspended at the yield of line 244                *)
(*             waiting   in semaphore.acquire, its future pending          *)
(*             granted   its future has the slot, the task has not run yet *)
(*             opening, loop, closing, last                                *)
(*                       the translator's places, as in SpecTranslate      *)
(*             orphaned  the client is gone, the generators are not yet    *)
(*                       finalized                                         *)
(*             done      stream_generator has returned or was closed       *)
(*   out[s]    the items handed to the client                              *)
(*   gone[s]   the client has disconnected                                 *)
(*   resp[s]   the upstream request: none, open, closed                    *)
(*   sem_value, sem_waiters   asyncio.Semaphore's _value and _waiters      *)
(*   active_streams           the dict of process_stream's records         *)
(* Times are measured from the present: the loop's clock reads 0 and a     *)
(* tick moves every recorded start_time one tick into the past.            *)
(***************************************************************************)
\* asyncio.get_event_loop().time()
now == 0

\* cleanup_stale_streams(max_age_seconds: int = 300)
max_age_seconds == 300

RegLines == { TextLine("Hi", Absent), RawLine("badjson"), RawLine("blank") }

\* the places at which a stream holds a slot of the semaphore
SlotPlaces == {"granted", "opening", "loop", "closing", "last", "orphaned"}
\* the places inside process_stream's "async with" body
BodyPlaces == {"opening", "loop", "closing", "last", "orphaned"}

Admitted == { s \in Streams : pc[s] \in SlotPlaces }

HasRecord(s) == s \in DOMAIN active_streams

\* self.active_streams[stream_id] = {...}   (lines 248-251)
PutRecord(streams, s, t) ==
    [x \in DOMAIN streams \cup {s} |->
        IF x = s THEN [start_time |-> t, chunks_processed |-> 0] ELSE streams[x]]

\* self.active_streams.pop(stream_id)
PopRecords(streams, ids) == [x \in DOMAIN streams \ ids |-> streams[x]]

\* a finally block that leaves the record in place
FinallyKeepsRecord(streams, s) == streams

\* a finally block that empties the registry
FinallyClearsAll(streams, s) == <<>>

\* the finally block of process_stream (lines 267-275)
FinallyPop(streams, s) == PopRecords(streams, {s})

RemoveWaiter(waiters, s) == SelectSeq(waiters, LAMBDA x : x # s)

\* asyncio.Semaphore.locked(): no slot, or a waiter that was not cancelled
Locked == sem_value = 0 \/ sem_waiters # <<>>

\* the first waiter whose future is still pending, 0 when there is none
NextPending(waiters, places) ==
    LET idx == { i \in 1..Len(waiters) : places[waiters[i]] = "waiting" } IN
    IF idx = {} THEN 0
    ELSE waiters[CHOOSE i \in idx : \A j \in idx : i <= j]

\* a wake-up that reaches no waiter
WakeUpNobody(value, waiters, places) == <<value, places>>

\* asyncio.Semaphore._wake_up_next() with `value` slots free: the first
\* pending waiter takes one.  The result is <<value, places>>.
WakeUpNext(value, waiters, places) ==
    LET w == NextPending(waiters, places) IN
    IF w = 0 \/ value = 0 THEN <<value, places>>
    ELSE <<value - 1, [places EXCEPT ![w] = "granted"]>>

\* asyncio.Semaphore.release(), as run by "async with" on exit
SemRelease(value, waiters, places) == WakeUpNext(value + 1, waiters, places)

\* what leaving process_stream does to the semaphore (line 247, __aexit__)
ExitGate(value, waiters, places) == SemRelease(value, waiters, places)

InitRegistry == TIdle /\ RIdle /\ HIdle /\ UIdle

\* A client posts a streaming request; stream_generator starts.  Request
\* ids are fresh, so the requests are numbered in the order they are made.
Request(s) ==
    /\ pc[s] = "idle"
    /\ \A r \in Streams : r < s => pc[r] # "idle"
    /\ pc' = [pc EXCEPT ![s] = "post"]
    /\ UNCHANGED <<out, gone, resp,
                   sem_value, sem_waiters, active_streams, tvars, hvars, uvars>>

\* process_stream up to its first yield, once the slot is held:
\* lines 248-251, then the translator's message_start (lines 47-57)
EnterBody(s, places) ==
    /\ active_streams' = PutRecord(active_streams, s, now)
    /\ out' = [out EXCEPT ![s] = Append(@, format_sse_event(MessageStart(s)))]
    /\ pc' = [places EXCEPT ![s] = "opening"]

\* PostOk with a body that is entered without passing the gate
PostOkUngated(s) ==
    /\ pc[s] = "post"
    /\ resp' = [resp EXCEPT ![s] = "open"]
    /\ sem_value' = sem_value - 1
    /\ EnterBody(s, pc)
    /\ UNCHANGED <<sem_waiters, gone, tvars, hvars, uvars>>

\* the upstream answers 200; process_stream reaches the gate (line 247)
PostOk(s) ==
    /\ pc[s] = "post"
    /\ resp' = [resp EXCEPT ![s] = "open"]
    /\ IF ~Locked
       THEN /\ sem_value' = sem_value - 1
            /\ EnterBody(s, pc)
            /\ UNCHANGED sem_waiters
       ELSE /\ sem_waiters' = Append(sem_waiters, s)
            /\ pc' = [pc EXCEPT ![s] = "waiting"]
            /\ UNCHANGED <<sem_value, active_streams, out>>
    /\ UNCHANGED <<gone, tvars, hvars, uvars>>

\* the item of line 233
BadStatusItem ==
    [Event("<none>", NoIndex, "", "OpenAI gateway request failed", "", "")
        EXCEPT !.wire = "data: {'error': ...}\n\n"]

\* the item of line 244
GeneratorErrorItem ==
    [Event("<none>", NoIndex, "", "Streaming error occurred", "", "")
        EXCEPT !.wire = "data: {'error': ...}\n\n"]

\* response.text() of an answer with another status
ErrorBodies == { "{\"error\":{\"message\":\"Rate limit reached\"}}" }

\* line 233: error_text is logged, the item is a fixed string
bad_status_item(error_text) == BadStatusItem

\* line 244: e is logged, the item is a fixed string
generator_error_item(e) == GeneratorErrorItem

\* an answer whose status is looked at only after the translation began
PostBadStatusAfterStart(s) ==
    /\ pc[s] = "post"
    /\ resp' = [resp EXCEPT ![s] = "open"]
    /\ out' = [out EXCEPT ![s] =
                 Append(Append(@, format_sse_event(MessageStart(s))), BadStatusItem)]
    /\ pc' = [pc EXCEPT ![s] = "rejected"]
    /\ UNCHANGED <<gone, sem_value, sem_waiters,
                   active_streams, tvars, hvars, uvars>>

\* The upstream answers with another status (lines 227-234).  Reading the
\* body of the answer can itself raise; the response is then closed as the
\* exception leaves the "async with" and the handler of line 240 runs.
PostBadStatus(s) ==
    /\ pc[s] = "post"
    /\ \/ \E error_text \in ErrorBodies :
            /\ resp' = [resp EXCEPT ![s] = "open"]
            /\ out' = [out EXCEPT ![s] = Append(@, bad_status_item(error_text))]
            /\ pc' = [pc EXCEPT ![s] = "rejected"]
       \/ \E e \in Exceptions :
            /\ resp' = [resp EXCEPT ![s] = "closed"]
            /\ out' = [out EXCEPT ![s] = Append(@, generator_error_item(e))]
            /\ pc' = [pc EXCEPT ![s] = "failed"]
    /\ UNCHANGED <<gone, sem_value, sem_waiters,
                   active_streams, tvars, hvars, uvars>>

\* http_client.post raises (lines 240-244)
PostRaise(s) ==
    /\ pc[s] = "post"
    /\ \E e \in Exceptions :
         out' = [out EXCEPT ![s] = Append(@, generator_error_item(e))]
    /\ pc' = [pc EXCEPT ![s] = "failed"]
    /\ UNCHANGED <<gone, resp, sem_value, sem_waiters,
                   active_streams, tvars, hvars, uvars>>

\* stream_generator returns after the item of line 233 or 244
GeneratorReturn(s) ==
    /\ pc[s] \in {"rejected", "failed"}
    /\ pc' = [pc EXCEPT ![s] = "done"]
    /\ resp' = [resp EXCEPT ![s] = IF @ = "open" THEN "closed" ELSE @]
    /\ UNCHANGED <<out, gone, sem_value, sem_waiters,
                   active_streams, tvars, hvars, uvars>>

\* a waiter whose future got the slot runs again: the rest of acquire()
\* (it leaves _waiters and passes a free slot on), then the body
Resume(s) ==
    /\ pc[s] = "granted"
    /\ LET waiters == RemoveWaiter(sem_waiters, s)
           woke == WakeUpNext(sem_value, waiters, pc)
       IN /\ sem_waiters' = waiters
          /\ sem_value' = woke[1]
          /\ EnterBody(s, woke[2])
    /\ UNCHANGED <<gone, resp, tvars, hvars, uvars>>

\* lines 60-67
Open(s) ==
    /\ pc[s] = "opening"
    /\ out' = [out EXCEPT ![s] = Append(@, format_sse_event(ContentBlockStart0))]
    /\ pc' = [pc EXCEPT ![s] = "loop"]
    /\ UNCHANGED <<gone, resp, sem_value, sem_waiters,
                   active_streams, tvars, hvars, uvars>>

\* a chunk_generator that counts nothing
CountNothing(streams, s) == streams

\* chunk_generator's update of the record (line 258); it raises KeyError
\* when the record is not there
CountChunk(streams, s) ==
    [streams EXCEPT ![s].chunks_processed = @ + 1]

\* openai_response.content delivers a line (lines 257-259, 69-80)
Chunk(s) ==
    /\ pc[s] = "loop"
    /\ HasRecord(s) => active_streams[s].chunks_processed < MaxRegChunks
    /\ \E chunk \in RegLines :
         IF HasRecord(s)
         THEN /\ active_streams' = CountChunk(active_streams, s)
              /\ out' = [out EXCEPT ![s] =
                           IF chunk_event(chunk) = NoEvent THEN @
                           ELSE Append(@, format_sse_event(chunk_event(chunk)))]
              /\ UNCHANGED pc
         ELSE /\ out' = [out EXCEPT ![s] =
                           Append(@, format_sse_event(stream_error_event("KeyError: 'req'")))]
              /\ pc' = [pc EXCEPT ![s] = "last"]
              /\ UNCHANGED active_streams
    /\ UNCHANGED <<gone, resp, sem_value, sem_waiters, tvars, hvars, uvars>>

\* an end of the upstream body that the loop does not notice
EofKeepsReading(s) ==
    /\ pc[s] = "loop"
    /\ UNCHANGED <<pc, out, gone, resp, sem_value, sem_waiters,
                   active_streams, tvars, hvars, uvars>>

\* the upstream body ends (lines 69, 83-86)
Eof(s) ==
    /\ pc[s] = "loop"
    /\ out' = [out EXCEPT ![s] = Append(@, format_sse_event(ContentBlockStop0))]
    /\ pc' = [pc EXCEPT ![s] = "closing"]
    /\ UNCHANGED <<gone, resp, sem_value, sem_waiters,
                   active_streams, tvars, hvars, uvars>>

\* reading the upstream body raises (lines 69, 93-101)
UpstreamRaise(s) ==
    /\ pc[s] = "loop"
    /\ \E e \in Exceptions :
         out' = [out EXCEPT ![s] = Append(@, format_sse_event(stream_error_event(e)))]
    /\ pc' = [pc EXCEPT ![s] = "last"]
    /\ UNCHANGED <<gone, resp, sem_value, sem_waiters,
                   active_streams, tvars, hvars, uvars>>

\* lines 89-91
SendMessageStop(s) ==
    /\ pc[s] = "closing"
    /\ out' = [out EXCEPT ![s] = Append(@, format_sse_event(MessageStop))]
    /\ pc' = [pc EXCEPT ![s] = "last"]
    /\ UNCHANGED <<gone, resp, sem_value, sem_waiters,
                   active_streams, tvars, hvars, uvars>>

\* leaving the body with the upstream response left open
LeaveBodyUpstreamOpen(s) ==
    /\ active_streams' = FinallyPop(active_streams, s)
    /\ LET gate == ExitGate(sem_value, sem_waiters, [pc EXCEPT ![s] = "done"])
       IN /\ sem_value' = gate[1]
          /\ pc' = gate[2]
    /\ UNCHANGED <<resp, sem_waiters>>

\* Leaving process_stream from inside its body: the finally block, the
\* semaphore's __aexit__, then stream_generator's "async with" closes the
\* upstream response.
LeaveBody(s) ==
    /\ active_streams' = FinallyPop(active_streams, s)
    /\ LET gate == ExitGate(sem_value, sem_waiters, [pc EXCEPT ![s] = "done"])
       IN /\ sem_value' = gate[1]
          /\ pc' = gate[2]
    /\ resp' = [resp EXCEPT ![s] = "closed"]
    /\ UNCHANGED sem_waiters

\* the translator returns after message_stop or after the error event
Return(s) ==
    /\ pc[s] = "last"
    /\ LeaveBody(s)
    /\ UNCHANGED <<out, gone, tvars, hvars, uvars>>

\* The client disconnects.  The server cancels the task that iterates
\* stream_generator: CancelledError at the await the task is suspended in,
\* the cleanup running as the exception unwinds; or, suspended at a yield,
\* the generators are left to the loop's finalizer (orphaned).
Disconnect(s) ==
    /\ pc[s] \notin {"idle", "done", "orphaned"}
    /\ gone' = [gone EXCEPT ![s] = TRUE]
    /\ CASE pc[s] = "post" ->
              /\ pc' = [pc EXCEPT ![s] = "done"]
              /\ UNCHANGED <<resp, sem_value, sem_waiters, active_streams>>
         [] pc[s] \in {"rejected", "failed"} ->
              /\ pc' = [pc EXCEPT ![s] = "done"]
              /\ resp' = [resp EXCEPT ![s] = IF @ = "open" THEN "closed" ELSE @]
              /\ UNCHANGED <<sem_value, sem_waiters, active_streams>>
         [] pc[s] = "waiting" ->
              /\ sem_waiters' = RemoveWaiter(sem_waiters, s)
              /\ pc' = [pc EXCEPT ![s] = "done"]
              /\ resp' = [resp EXCEPT ![s] = "closed"]
              /\ UNCHANGED <<sem_value, active_streams>>
         [] pc[s] = "granted" ->
              /\ LET waiters == RemoveWaiter(sem_waiters, s)
                     woke == WakeUpNext(sem_value + 1, waiters,
                                        [pc EXCEPT ![s] = "done"])
                 IN /\ sem_waiters' = waiters
                    /\ sem_value' = woke[1]
                    /\ pc' = woke[2]
              /\ resp' = [resp EXCEPT ![s] = "closed"]
              /\ UNCHANGED <<active_streams>>
         [] OTHER ->
              \/ LeaveBody(s)
              \/ /\ pc' = [pc EXCEPT ![s] = "orphaned"]
                 /\ UNCHANGED <<resp, sem_value, sem_waiters, active_streams>>
    /\ UNCHANGED <<out, tvars, hvars, uvars>>

\* the loop's finalizer closes the orphaned generators (aclose)
Finalize(s) ==
    /\ pc[s] = "orphaned"
    /\ LeaveBody(s)
    /\ UNCHANGED <<out, gone, tvars, hvars, uvars>>

\* a sweep that takes a record whose age has just reached the threshold
StaleStreamsAtThreshold(streams, current_time) ==
    { x \in DOMAIN streams : current_time - streams[x].start_time >= max_age_seconds }

\* cleanup_stale_streams()   (lines 286-297)
StaleStreams(streams, current_time) ==
    { x \in DOMAIN streams : current_time - streams[x].start_time > max_age_seconds }

\* a sweep that also releases a slot for every record it evicts
cleanup_releasing_slots ==
    LET stale == StaleStreams(active_streams, now) IN
    /\ active_streams' = PopRecords(active_streams, stale)
    /\ sem_value' = sem_value + Cardinality(stale)
    /\ UNCHANGED <<pc, out, gone, resp, sem_waiters, tvars, hvars, uvars>>

cleanup_stale_streams ==
    /\ active_streams' =
         PopRecords(active_streams, StaleStreams(active_streams, now))
    /\ UNCHANGED <<pc, out, gone, resp, sem_value, sem_waiters, tvars, hvars, uvars>>

\* Time passes: every start_time is one tick further in the past.  The
\* clock stops once every record is stale: the sweep reads no more of an age
\* than whether it exceeds the threshold.
Tick ==
    /\ StaleStreams(active_streams, now) # DOMAIN active_streams
    /\ active_streams' =
         [x \in DOMAIN active_streams |->
            IF x \in StaleStreams(active_streams, now)
            THEN active_streams[x]
            ELSE [active_streams[x] EXCEPT !.start_time = @ - TickSeconds]]
    /\ UNCHANGED <<pc, out, gone, resp, sem_value, sem_waiters, tvars, hvars, uvars>>

StreamStep(s) ==
    \/ Request(s)
    \/ PostOk(s)
    \/ PostBadStatus(s)
    \/ PostRaise(s)
    \/ GeneratorReturn(s)
    \/ Resume(s)
    \/ Open(s)
    \/ Chunk(s)
    \/ Eof(s)
    \/ UpstreamRaise(s)
    \/ SendMessageStop(s)
    \/ Return(s)
    \/ Disconnect(s)
    \/ Finalize(s)

NextRegistry ==
    \/ \E s \in Streams : StreamStep(s)
    \/ cleanup_stale_streams
    \/ Tick

SpecRegistry == InitRegistry /\ [][NextRegistry]_vars

(***************************************************************************)
(* SpecServer: the requests as src/main.py serves them.  Nothing in the    *)
(* repository calls cleanup_stale_streams, so no sweep runs and no reading *)
(* of the clock is ever compared with another.                             *)
(***************************************************************************)
NextServer == \E s \in Streams : StreamStep(s)

SpecServer == InitRegistry /\ [][NextServer]_vars

(***************************************************************************)
(* SpecWide: the requests behind the gate main.py builds (line 56):        *)
(* AsyncStreamProcessor() with the default max_concurrent, which is more   *)
(* than the requests of the model, so that all of them translate at the    *)
(* same time and none ever waits.                                          *)
(***************************************************************************)
RWide ==
    /\ pc = [s \in Streams |-> "idle"]
    /\ out = [s \in Streams |-> <<>>]
    /\ gone = [s \in Streams |-> FALSE]
    /\ resp = [s \in Streams |-> "none"]
    /\ sem_value = NStreams
    /\ sem_waiters = <<>>
    /\ active_streams = <<>>

InitWide == TIdle /\ RWide /\ HIdle /\ UIdle

WideStep(s) ==
    \/ Request(s)
    \/ PostOk(s)
    \/ PostBadStatus(s)
    \/ PostRaise(s)
    \/ GeneratorReturn(s)
    \/ Open(s)
    \/ Chunk(s)
    \/ Eof(s)
    \/ UpstreamRaise(s)
    \/ SendMessageStop(s)
    \/ Return(s)
    \/ Disconnect(s)
    \/ Finalize(s)

NextWide == \E s \in Streams : WideStep(s)

SpecWide == InitWide /\ [][NextWide]_vars

(***************************************************************************)
(* SpecRegistry with the scheduling the event loop gives.  A task that can *)
(* run does run; the upstream body ends, or the read of it fails (the      *)
(* client session has a total timeout, main.py line 78); the loop's        *)
(* finalizer closes orphaned generators.  Nothing obliges a client to      *)
(* disconnect, the upstream to answer in a given way, or the sweep to run. *)
(***************************************************************************)
Progress(s) ==
    \/ PostOk(s)
    \/ GeneratorReturn(s)
    \/ Resume(s)
    \/ Open(s)
    \/ Eof(s)
    \/ SendMessageStop(s)
    \/ Return(s)
    \/ Finalize(s)

FairRegistry ==
    /\ InitRegistry
    /\ [][NextRegistry]_vars
    /\ \A s \in Streams : WF_vars(Progress(s))

(***************************************************************************)
(* Properties of the registry, checked under SpecRegistry or FairRegistry. *)
(***************************************************************************)
\* C5: at most max_concurrent streams are admitted at the same time, and
\* active_streams never holds more than max_concurrent records.
C5_AdmissionCeiling ==
    /\ Cardinality(Admitted) <= MaxConcurrent
    /\ Cardinality(DOMAIN active_streams) <= MaxConcurrent

\* the gate is full and a stream waits at it
C5_Witness ==
    /\ Cardinality(Admitted) = MaxConcurrent
    /\ \E s \in Streams : pc[s] = "waiting"

\* a step in which stream s gives its slot back: the semaphore has one more
\* free slot, or the slot went to a waiter
SlotFreedBy(s) ==
    \/ sem_value' = sem_value + 1
    \/ /\ sem_value' = sem_value
       /\ \E w \in Streams \ {s} : pc[w] = "waiting" /\ pc'[w] = "granted"

\* C6: every step by which a stream leaves process_stream (normal
\* completion, after the error event, cancelled, closed by the finalizer)
\* frees its slot and leaves no record of it, and a stream that has left has
\* no record.
C6_ReleasedOnEveryExit ==
    [][\A s \in Streams :
          /\ (pc[s] \in BodyPlaces /\ pc'[s] = "done") =>
                (SlotFreedBy(s) /\ s \notin DOMAIN active_streams')
          /\ pc'[s] = "done" => s \notin DOMAIN active_streams']_vars

\* one stream has ended with the error event, another was dropped by its
\* client after content_block_start; both have left
C6_Witness ==
    \E s, r \in Streams :
        /\ pc[s] = "done" /\ ~gone[s]
        /\ out[s] # <<>> /\ out[s][Len(out[s])].type = "error"
        /\ pc[r] = "done" /\ gone[r]
        /\ out[r] # <<>> /\ out[r][Len(out[r])].type = "content_block_start"

\* C7: the free slots and the admitted streams always add up to
\* max_concurrent, and the free slots never exceed it.
C7_SlotsConserved ==
    /\ sem_value + Cardinality(Admitted) = MaxConcurrent
    /\ sem_value >= 0
    /\ sem_value <= MaxConcurrent

\* a sweep has evicted the record of a stream that is still translating
C7_Witness ==
    \E s \in Streams :
        /\ pc[s] \in {"loop", "closing"}
        /\ ~HasRecord(s)
        /\ sem_value = MaxConcurrent - 1

\* C8: the sweep releases the slot of every stream it evicts: a slot is
\* held only by a stream that has a record or that was just granted one.
C8_SweepReleasesSlot ==
    sem_value + Cardinality(DOMAIN active_streams)
              + Cardinality({ s \in Streams : pc[s] = "granted" }) = MaxConcurrent

\* C9: a stream that finds the gate full waits: it has emitted nothing and
\* has no record while it waits, and it is admitted in the end unless its
\* client disconnects first.
C9_WaitsThenAdmitted ==
    /\ [](\A s \in Streams :
            pc[s] \in {"waiting", "granted"} => (out[s] = <<>> /\ ~HasRecord(s)))
    /\ \A s \in Streams :
          (pc[s] = "waiting") ~> (pc[s] \in BodyPlaces \/ gone[s])

\* a waiter has been handed the slot of a stream that ran to its end
C9_Witness ==
    \E s, r \in Streams :
        /\ pc[s] = "granted"
        /\ pc[r] = "done"
        /\ out[r] # <<>>
        /\ out[r][Len(out[r])].type = "message_stop"

\* C10: once the client has disconnected nothing more is emitted on its
\* stream; when the stream has been taken down the upstream request is not
\* open and the stream has neither slot nor record; and it is taken down.
C10_DisconnectCleansUp ==
    /\ [][\A s \in Streams :
            /\ gone[s] => out'[s] = out[s]
            /\ (gone'[s] /\ pc'[s] = "done") =>
                  /\ resp'[s] # "open"
                  /\ s \notin DOMAIN active_streams'
            /\ (gone'[s] /\ ~gone[s] /\ pc[s] \in BodyPlaces /\ pc'[s] = "done") =>
                  SlotFreedBy(s)
            /\ (gone[s] /\ pc[s] = "orphaned" /\ pc'[s] = "done") =>
                  SlotFreedBy(s)]_vars
    /\ \A s \in Streams : gone[s] ~> (pc[s] = "done")

\* a client left in the middle of its stream, which has been taken down
C10_Witness ==
    \E s \in Streams :
        /\ gone[s]
        /\ pc[s] = "done"
        /\ resp[s] = "closed"
        /\ Len(out[s]) >= 3
        /\ out[s][Len(out[s])].type = "content_block_delta"

\* the items that stream_generator yields itself (lines 233 and 244)
OwnItem(item) == item.wire # SseWire

\* C19: a request whose upstream answer has a non-success status hands the
\* client one error item and nothing else, and holds neither a slot nor a
\* place in the queue of the gate nor a record, then or later.
C19_BadStatusOneErrorItem ==
    \A s \in Streams :
        /\ pc[s] = "rejected" => out[s] = << BadStatusItem >>
        /\ pc[s] = "failed" => out[s] = << GeneratorErrorItem >>
        /\ (out[s] # <<>> /\ OwnItem(out[s][1])) =>
              /\ Len(out[s]) = 1
              /\ pc[s] \in {"rejected", "failed", "done"}
              /\ s \notin Admitted
              /\ ~HasRecord(s)
              /\ \A i \in 1..Len(sem_waiters) : sem_waiters[i] # s
        /\ \A i \in 1..Len(out[s]) : OwnItem(out[s][i]) => i = 1

\* one request was answered with a bad status and has returned while
\* another stream holds the slot
C19_Witness ==
    \E s, r \in Streams :
        /\ pc[s] = "done" /\ ~gone[s]
        /\ out[s] = << BadStatusItem >>
        /\ resp[s] = "closed"
        /\ pc[r] = "loop"
        /\ sem_value = MaxConcurrent - 1

\* the items that tell the client of a failure
ErrorItems(s) ==
    { i \in 1..Len(out[s]) : out[s][i].type = "error" \/ OwnItem(out[s][i]) }

SeqsUpTo(S, n) == UNION { [1..k -> S] : k \in 0..n }

Open_ == "<think>"
Close_ == "</think>"
Chars == {"a", "b", " ", Open_, Close_}

\* a key that is missing, and a JSON null, where a text is expected
NoContent == << Absent >>
NullContent == << Null >>

\* str.strip()
RECURSIVE LStrip(_)
LStrip(text) ==
    IF text # <<>> /\ Head(text) = " " THEN LStrip(Tail(text)) ELSE text

RECURSIVE RStrip(_)
RStrip(text) ==
    IF text # <<>> /\ text[Len(text)] = " "
    THEN RStrip(SubSeq(text, 1, Len(text) - 1))
    ELSE text

strip(text) == RStrip(LStrip(text))

\* the least element of a non-empty set of numbers
Least(S) == CHOOSE i \in S : \A j \in S : i <= j

\* DeepSeekFeatures.parse_thinking_response: re.search of
\* <think>(.*?)</think>(.*) with DOTALL, both groups stripped; (None,
\* content) when nothing matches.  The result is <<thinking, answer>>.
parse_thinking_response(content) ==
    LET opens == { i \in 1..Len(content) :
                      /\ content[i] = Open_
                      /\ \E j \in (i + 1)..Len(content) : content[j] = Close_ }
    IN IF opens = {} THEN << NullContent, content >>
       ELSE LET i == Least(opens)
                j == Least({ k \in (i + 1)..Len(content) : content[k] = Close_ })
            IN << strip(SubSeq(content, i + 1, j - 1)),
                  strip(SubSeq(content, j + 1, Len(content))) >>

ReasoningLabel == "**Reasoning Process:**\n"
AnswerLabel == "\n\n**Answer:**\n"

\* DeepSeekFeatures.format_thinking_for_claude, the text of its one block
format_thinking_for_claude(thinking, answer) ==
    IF thinking # NullContent /\ thinking # <<>>
    THEN << ReasoningLabel >> \o thinking \o << AnswerLabel >> \o answer
    ELSE answer

\* an upstream response document
\*   choices     Absent, "empty" ([]), "one" (choices[0] is an object)
\*   message     Absent, "object"
\*   content     NoContent, NullContent or a text
\*   tool_calls  the list of message["tool_calls"] (empty when absent)
\*   finish      choices[0]["finish_reason"]
\*   usage       the top-level "usage"
Response(choices, message, content, tool_calls, finish, usage) ==
    [choices |-> choices, message |-> message, content |-> content,
     tool_calls |-> tool_calls, finish |-> finish, usage |-> usage]

NoUsage == [present |-> FALSE, prompt_tokens |-> 0, completion_tokens |-> 0, total_tokens |-> 0]
SomeUsage == [present |-> TRUE, prompt_tokens |-> 7, completion_tokens |-> 5, total_tokens |-> 12]

ToolCall(id, name, arguments) ==
    [type |-> "function", id |-> id, name |-> name, arguments |-> arguments]

ToolCalls ==
    { ToolCall("call_1", "get_weather", "{\"city\":\"Paris\"}"),
      ToolCall("call_2", "search", "{\"q\":"),
      ToolCall("call_3", "now", Absent) }

FinishReasons ==
    { "stop", "length", "function_call", "tool_calls", "content_filter",
      "eos", Null, Absent }

Responses ==
    { Response(c, Absent, NoContent, <<>>, Absent, u) :
        c \in {Absent, "empty"}, u \in {NoUsage, SomeUsage} }
    \cup { Response("one", Absent, NoContent, <<>>, f, u) :
             f \in {Absent, "stop"}, u \in {NoUsage, SomeUsage} }
    \cup { Response("one", "object", c, t, f, u) :
             c \in {NoContent, NullContent, << "a" >>},
             t \in SeqsUpTo(ToolCalls, MaxToolCalls),
             f \in {"stop", "tool_calls"},
             u \in {NoUsage, SomeUsage} }
    \cup { Response("one", "object", << "a" >>, <<>>, f, SomeUsage) :
             f \in FinishReasons }
    \cup { Response("one", "object", c, <<>>, "stop", SomeUsage) :
             c \in SeqsUpTo(Chars, MaxText) }

\* dict.get(key): None for a missing key
Get(v) == IF v = Absent THEN Null ELSE v

\* message.get("content", "") as process_response reads it
ContentOrEmpty(response) ==
    IF response.message = Absent \/ response.content = NoContent
    THEN <<>>
    ELSE response.content

\* ResponseProcessor.process_response raises: re.search is handed None
process_response_raises(response) ==
    /\ response.choices = "one"
    /\ ContentOrEmpty(response) = NullContent

\* ResponseProcessor.process_response: message["content"] afterwards
process_response(response) ==
    IF response.choices # "one" THEN response.content
    ELSE LET parsed == parse_thinking_response(ContentOrEmpty(response)) IN
         IF parsed[1] # NullContent /\ parsed[1] # <<>>
         THEN format_thinking_for_claude(parsed[1], parsed[2])
         ELSE response.content

\* a mapper that lets an unknown reason through
converter_finish_reason_open(openai_reason) ==
    CASE openai_reason = "stop" -> "end_turn"
      [] openai_reason = "length" -> "max_tokens"
      [] openai_reason = "function_call" -> "tool_use"
      [] openai_reason = "tool_calls" -> "tool_use"
      [] openai_reason = "content_filter" -> "stop_sequence"
      [] openai_reason = Null -> "end_turn"
      [] OTHER -> openai_reason

\* MessageConverter._convert_finish_reason
converter_finish_reason(openai_reason) ==
    CASE openai_reason = "stop" -> "end_turn"
      [] openai_reason = "length" -> "max_tokens"
      [] openai_reason = "function_call" -> "tool_use"
      [] openai_reason = "tool_calls" -> "tool_use"
      [] openai_reason = "content_filter" -> "stop_sequence"
      [] openai_reason = Null -> "end_turn"
      [] OTHER -> "end_turn"

\* MessageConverter._convert_usage
convert_usage(openai_usage) ==
    [input_tokens |-> IF openai_usage.present THEN openai_usage.prompt_tokens ELSE 0,
     output_tokens |-> IF openai_usage.present THEN openai_usage.completion_tokens ELSE 0,
     total_tokens |-> IF openai_usage.present THEN openai_usage.total_tokens ELSE 0]

\* json.loads of an arguments text: whether it decodes, and to what (a JSON
\* object as the set of its members)
Decodes(text) == text \in {"{}", "{\"city\":\"Paris\"}"}

json_loads(text) ==
    IF text = "{\"city\":\"Paris\"}" THEN { << "city", "Paris" >> } ELSE {}

\* function.get("arguments", "{}")
ArgumentsOrDefault(tool_call) ==
    IF tool_call.arguments = Absent THEN "{}" ELSE tool_call.arguments

TextBlock(text) ==
    [type |-> "text", text |-> text, id |-> "", name |-> "", input |-> {}]

ToolUseBlock(id, name, input) ==
    [type |-> "tool_use", text |-> <<>>, id |-> id, name |-> name, input |-> input]

\* MessageConverter.openai_to_claude_response raises: [][0] of an empty
\* choices list, or json.loads of arguments that do not decode
converter_raises(response) ==
    \/ response.choices = "empty"
    \/ /\ response.choices = "one"
       /\ response.message # Absent
       /\ \E i \in 1..Len(response.tool_calls) :
             /\ response.tool_calls[i].type = "function"
             /\ ~Decodes(ArgumentsOrDefault(response.tool_calls[i]))

\* the "content" list of openai_to_claude_response (lines 185-203), for the
\* message content as process_response left it
claude_content(response, content) ==
    IF response.choices # "one" \/ response.message = Absent THEN <<>>
    ELSE LET calls == SelectSeq(response.tool_calls, LAMBDA c : c.type = "function")
             tools == [i \in 1..Len(calls) |->
                          ToolUseBlock(calls[i].id, calls[i].name,
                                       json_loads(ArgumentsOrDefault(calls[i])))]
         IN IF content \notin {NoContent, NullContent, <<>>}
            THEN << TextBlock(content) >> \o tools
            ELSE tools

\* what the client is sent: a JSONResponse (status 200) ...
JsonResponse(content, stop_reason, usage) ==
    [status |-> 200, content |-> content, stop_reason |-> stop_reason, usage |-> usage]

\* ... or the HTTPException of lines 296-300
InternalServerError ==
    [status |-> 500, content |-> <<>>, stop_reason |-> "", usage |-> convert_usage(NoUsage)]

\* MessageConverter.openai_to_claude_response
openai_to_claude_response(response, content) ==
    JsonResponse(claude_content(response, content),
                 converter_finish_reason(
                     IF response.choices = "one" THEN Get(response.finish) ELSE Null),
                 convert_usage(response.usage))

InitResponse == TIdle /\ RIdle /\ HIdle /\ UIdle

\* lines 264-275: the upstream answers 200 with a document
NAnswer ==
    /\ n_pc = "idle"
    /\ \E response \in Responses :
         /\ n_doc' = response
         /\ n_msg' = response.content
    /\ n_pc' = "answered"
    /\ UNCHANGED <<n_res, q_pc, q_in, q_req, tvars, rvars, uvars>>

\* line 278
NProcess ==
    /\ n_pc = "answered"
    /\ IF process_response_raises(n_doc)
       THEN /\ n_res' = InternalServerError
            /\ n_pc' = "done"
            /\ UNCHANGED n_msg
       ELSE /\ n_msg' = process_response(n_doc)
            /\ n_pc' = "processed"
            /\ UNCHANGED n_res
    /\ UNCHANGED <<n_doc, q_pc, q_in, q_req, tvars, rvars, uvars>>

\* lines 281-288
NConvert ==
    /\ n_pc = "processed"
    /\ n_res' = IF converter_raises(n_doc)
                THEN InternalServerError
                ELSE openai_to_claude_response(n_doc, n_msg)
    /\ n_pc' = "done"
    /\ UNCHANGED <<n_doc, n_msg, q_pc, q_in, q_req, tvars, rvars, uvars>>

\* an exception, by its class and, for an HTTPException, its status_code
Raised(class, status) == [class |-> class, status |-> status]

\* the statuses of an upstream that refuses the request
UpstreamStatuses == {400, 429, 503}

\* the aiohttp.ClientError raised when the upstream cannot be reached
ClientErrors == {"ClientConnectorError", "ServerDisconnectedError"}

\* the except clauses of handle_non_streaming_request (lines 290-300), for
\* an exception raised in its try block: HTTPException is not an
\* aiohttp.ClientError and is caught as an Exception
non_streaming_except(e) ==
    IF e.class = "ClientError"
    THEN Raised("HTTPException", 502)
    ELSE Raised("HTTPException", 500)

\* the except clause of create_message (lines 200-209), which encloses the
\* call of handle_non_streaming_request
create_message_except(e) == Raised("HTTPException", 500)

\* the response the framework makes of an HTTPException
HttpErrorResponse(e) ==
    [status |-> e.status, content |-> <<>>, stop_reason |-> "",
     usage |-> convert_usage(NoUsage)]

\* lines 266-272: the upstream answers with a status other than 200
NBadStatus ==
    /\ n_pc = "idle"
    /\ \E status \in UpstreamStatuses, error_text \in ErrorBodies :
         /\ n_doc' = [status |-> status, text |-> error_text]
         /\ n_res' = HttpErrorResponse(create_message_except(
                         non_streaming_except(Raised("HTTPException", status))))
    /\ n_pc' = "refused"
    /\ UNCHANGED <<n_msg, q_pc, q_in, q_req, tvars, rvars, uvars>>

\* line 264: http_client.post raises an aiohttp.ClientError
NPostRaise ==
    /\ n_pc = "idle"
    /\ \E e \in ClientErrors :
         /\ n_doc' = [status |-> 0, text |-> e]
         /\ n_res' = HttpErrorResponse(create_message_except(
                         non_streaming_except(Raised("ClientError", 0))))
    /\ n_pc' = "unreached"
    /\ UNCHANGED <<n_msg, q_pc, q_in, q_req, tvars, rvars, uvars>>

NextResponse ==
    \/ NAnswer
    \/ NBadStatus
    \/ NPostRaise
    \/ NProcess
    \/ NConvert

SpecResponse == InitResponse /\ [][NextResponse]_vars

(***************************************************************************)
(* Properties of concurrent streams, checked under SpecWide.               *)
(***************************************************************************)
\* the events of stream s that its per-chunk body yielded
Payload(s) ==
    SelectSeq(out[s], LAMBDA e :
        \/ e.type \in {"content_block_delta", "message_delta"}
        \/ e.type = "content_block_start" /\ e.index # 0)

\* C21: a step of one stream (a malformed line, a failure of its upstream,
\* its cancellation, any other) leaves the events, the upstream request and
\* the record of every other stream as they were; and the events of a
\* stream are its own framing and the events of its own lines.
C21_FailuresIsolated ==
    /\ [][\A s \in Streams :
             WideStep(s) =>
                \A r \in Streams \ {s} :
                   /\ out'[r] = out[r]
                   /\ pc'[r] = pc[r]
                   /\ resp'[r] = resp[r]
                   /\ HasRecord(r) <=> r \in DOMAIN active_streams'
                   /\ HasRecord(r) => active_streams'[r] = active_streams[r]]_vars
    /\ [](\A r \in Streams :
             /\ Len(out[r]) >= 1 =>
                   \/ OwnItem(out[r][1])
                   \/ out[r][1].type = "message_start" /\ out[r][1].id = r
             /\ \A i \in 1..Len(Payload(r)) :
                   \E c \in RegLines : Payload(r)[i] = format_sse_event(chunk_event(c))
             /\ HasRecord(r) => Len(Payload(r)) <= active_streams[r].chunks_processed)

\* one stream has failed and left, after a malformed line; the other is in
\* its loop with its record and its text delta
C21_Witness ==
    \E s, r \in Streams :
        /\ pc[s] = "done"
        /\ out[s] # <<>>
        /\ out[s][Len(out[s])].type = "error"
        /\ Len(out[s]) = 3
        /\ pc[r] = "loop"
        /\ HasRecord(r)
        /\ active_streams[r].chunks_processed = 1
        /\ Len(out[r]) = 3

\* C22: every item handed to the client is a framed event whose data is a
\* JSON document with a `type` of the protocol, the items for a non-success
\* status and for an exception caught by stream_generator included.
C22_EveryItemFramedEvent ==
    \A s \in Streams : \A i \in 1..Len(out[s]) :
        /\ out[s][i].wire = SseWire
        /\ out[s][i].type \in {"message_start", "content_block_start",
                                "content_block_delta", "content_block_stop",
                                "message_delta", "message_stop", "error"}

(***************************************************************************)
(* SpecRequest: what create_message does to a downstream request before    *)
(* it is sent upstream (main.py lines 182-189): claude_to_openai_request,  *)
(* optimize_request, enable_thinking_mode.                                 *)
(*   q_pc    idle, parsed, converted, optimized, sent                      *)
(*   q_in    the downstream request                                        *)
(*   q_req   the upstream request being built                              *)
(* A text is the sequence of its characters.  An optional field is the     *)
(* empty set when the key is missing and {v} when it holds v.  temperature *)
(* top_p and the penalties are in hundredths.                              *)
(***************************************************************************)
UpperCase == << "A", "B", "C", "D", "E", "F", "G", "H", "I", "J", "K", "L", "M", "N", "O", "P", "Q", "R", "S", "T", "U", "V", "W", "X", "Y", "Z" >>
LowerCase == << "a", "b", "c", "d", "e", "f", "g", "h", "i", "j", "k", "l", "m", "n", "o", "p", "q", "r", "s", "t", "u", "v", "w", "x", "y", "z" >>

\* str.lower() of one character, and of a text
lower_char(ch) ==
    IF \E i \in 1..Len(UpperCase) : UpperCase[i] = ch
    THEN LowerCase[CHOOSE i \in 1..Len(UpperCase) : UpperCase[i] = ch]
    ELSE ch

lower(text) == [i \in 1..Len(text) |-> lower_char(text[i])]

\* pattern in text
Contains(text, pattern) ==
    \E i \in 1..(Len(text) - Len(pattern) + 1) :
        SubSeq(text, i, i + Len(pattern) - 1) = pattern

\* any(pattern in text for pattern in patterns)
ContainsAny(text, patterns) ==
    \E k \in 1..Len(patterns) : Contains(text, patterns[k])

\* DeepSeekFeatures.thinking_patterns: the alternatives of the four
\* expressions, which match anywhere and ignore case
thinking_patterns ==
    << << "c", "a", "l", "c", "u", "l", "a", "t", "e" >>,
       << "s", "o", "l", "v", "e" >>,
       << "e", "q", "u", "a", "t", "i", "o", "n" >>,
       << "f", "o", "r", "m", "u", "l", "a" >>,
       << "m", "a", "t", "h" >>,
       << "c", "o", "d", "e" >>,
       << "p", "r", "o", "g", "r", "a", "m" >>,
       << "f", "u", "n", "c", "t", "i", "o", "n" >>,
       << "a", "l", "g", "o", "r", "i", "t", "h", "m" >>,
       << "d", "e", "b", "u", "g" >>,
       << "a", "n", "a", "l", "y", "z", "e" >>,
       << "r", "e", "a", "s", "o", "n" >>,
       << "t", "h", "i", "n", "k" >>,
       << "l", "o", "g", "i", "c" >>,
       << "d", "e", "d", "u", "c", "e" >>,
       << "c", "r", "e", "a", "t", "e" >>,
       << "w", "r", "i", "t", "e" >>,
       << "s", "t", "o", "r", "y" >>,
       << "p", "o", "e", "m" >>,
       << "c", "r", "e", "a", "t", "i", "v", "e" >> >>

\* detect_task_type's keyword lists
code_patterns ==
    << << "c", "o", "d", "e" >>,
       << "f", "u", "n", "c", "t", "i", "o", "n" >>,
       << "c", "l", "a", "s", "s" >>,
       << "i", "m", "p", "l", "e", "m", "e", "n", "t" >>,
       << "d", "e", "b", "u", "g" >>,
       << "p", "r", "o", "g", "r", "a", "m" >> >>

reasoning_patterns ==
    << << "a", "n", "a", "l", "y", "z", "e" >>,
       << "r", "e", "a", "s", "o", "n" >>,
       << "s", "o", "l", "v", "e" >>,
       << "c", "a", "l", "c", "u", "l", "a", "t", "e" >>,
       << "l", "o", "g", "i", "c" >> >>

creative_patterns ==
    << << "w", "r", "i", "t", "e" >>,
       << "c", "r", "e", "a", "t", "e" >>,
       << "s", "t", "o", "r", "y" >>,
       << "p", "o", "e", "m" >>,
       << "c", "r", "e", "a", "t", "i", "v", "e" >> >>

\* the message texts a downstream request is built from
Texts ==
    { << "h", "e", "l", "l", "o" >>,
      << "I", "m", "p", "l", "e", "m", "e", "n", "t" >>,
      << "d", "e", "c", "o", "d", "e" >>,
      << "S", "o", "l", "v", "e" >>,
      << "p", "o", "e", "m" >>,
      << "t", "h", "i", "n", "k" >> }

\* the value of an optional field, or a default
ValueOr(field, default) == IF field = {} THEN default ELSE CHOOSE v \in field : TRUE

\* the content of a downstream message: a string, or a list of blocks
StrContent(text) == [kind |-> "str", text |-> text, blocks |-> <<>>]
ListContent(blocks) == [kind |-> "list", text |-> <<>>, blocks |-> blocks]
ContentBlock(type, text) == [type |-> type, text |-> text]

Contents ==
    { StrContent(text) : text \in Texts }
    \cup { ListContent(<< ContentBlock("text", << "d", "e" >>),
                          ContentBlock("image", <<>>),
                          ContentBlock("text", << "b", "u", "g" >>) >>) }

ClaudeMessage(content) == [role |-> "user", content |-> content]

\* the downstream requests: every message is a user message
ClaudeRequests ==
    [messages : UNION { [1..n -> { ClaudeMessage(c) : c \in Contents }] :
                          n \in 1..MaxMessages },
     tools : {{}} \cup { {n} : n \in 0..MaxTools },
     max_tokens : { {}, {1024} },
     temperature : { {}, {100} },
     top_p : { {}, {50} },
     stop_sequences : { {}, {"END"} }]

\* "".join of the texts of the text blocks
RECURSIVE join_text_parts(_)
join_text_parts(blocks) ==
    IF blocks = <<>> THEN <<>>
    ELSE (IF Head(blocks).type = "text" THEN Head(blocks).text ELSE <<>>)
            \o join_text_parts(Tail(blocks))

\* MessageConverter._extract_text_content
extract_text_content(content) ==
    IF content.kind = "str" THEN content.text ELSE join_text_parts(content.blocks)

\* MessageConverter._convert_messages
convert_messages(claude_messages) ==
    [i \in 1..Len(claude_messages) |->
        [role |-> "user", content |-> extract_text_content(claude_messages[i].content)]]

\* MessageConverter.claude_to_openai_request.  thinking is
\* extra_body.chat_template_kwargs.thinking, FALSE while extra_body is
\* missing.
claude_to_openai_request(claude_request) ==
    [messages |-> convert_messages(claude_request.messages),
     max_tokens |-> ValueOr(claude_request.max_tokens, 4096),
     temperature |-> ValueOr(claude_request.temperature, 70),
     tools |-> claude_request.tools,
     tool_choice |-> IF claude_request.tools = {} THEN {} ELSE {"auto"},
     stop |-> claude_request.stop_sequences,
     top_p |-> claude_request.top_p,
     frequency_penalty |-> {},
     presence_penalty |-> {},
     thinking |-> FALSE]

\* DeepSeekFeatures._should_enable_thinking
should_enable_thinking(request) ==
    \/ \E i \in 1..Len(request.messages) :
          ContainsAny(lower(request.messages[i].content), thinking_patterns)
    \/ ValueOr(request.tools, 0) > 2

\* an enable_thinking_mode that writes the flag it decided on
enable_thinking_mode_overwriting(request, thinking) ==
    [request EXCEPT !.thinking =
        IF thinking = "None" THEN should_enable_thinking(request) ELSE thinking = "True"]

\* DeepSeekFeatures.enable_thinking_mode; thinking is "None", "True" or
\* "False"
enable_thinking_mode(request, thinking) ==
    IF (IF thinking = "None" THEN should_enable_thinking(request) ELSE thinking = "True")
    THEN [request EXCEPT !.thinking = TRUE]
    ELSE request

\* content_text of detect_task_type: " " + content.lower() for each message
RECURSIVE content_text(_)
content_text(messages) ==
    IF messages = <<>> THEN <<>>
    ELSE << " " >> \o lower(Head(messages).content) \o content_text(Tail(messages))

\* a detect_task_type that looks for reasoning keywords first
detect_task_type_reasoning_first(request) ==
    LET text == content_text(request.messages) IN
    IF ContainsAny(text, reasoning_patterns) THEN "reasoning"
    ELSE IF ContainsAny(text, code_patterns) THEN "code"
    ELSE IF ContainsAny(text, creative_patterns) THEN "creative"
    ELSE "default"

\* DeepSeekFeatures.detect_task_type
detect_task_type(request) ==
    LET text == content_text(request.messages) IN
    IF ContainsAny(text, code_patterns) THEN "code"
    ELSE IF ContainsAny(text, reasoning_patterns) THEN "reasoning"
    ELSE IF ContainsAny(text, creative_patterns) THEN "creative"
    ELSE "default"

TaskConfig(temperature, top_p, frequency_penalty, presence_penalty, thinking) ==
    [temperature |-> temperature, top_p |-> top_p,
     frequency_penalty |-> frequency_penalty,
     presence_penalty |-> presence_penalty, thinking |-> thinking]

\* ModelOptimizer.task_configs
task_configs ==
    [task \in {"code", "reasoning", "creative", "analysis", "default"} |->
        CASE task = "code" -> TaskConfig(10, 90, 20, 0, TRUE)
          [] task = "reasoning" -> TaskConfig(30, 80, 10, 0, TRUE)
          [] task = "creative" -> TaskConfig(80, 95, 30, 20, FALSE)
          [] task = "analysis" -> TaskConfig(20, 85, 10, 10, TRUE)
          [] task = "default" -> TaskConfig(70, 80, 10, 0, FALSE)]

\* ModelOptimizer.optimize_request
optimize_request(request) ==
    LET config == task_configs[detect_task_type(request)]
        tuned == [request EXCEPT !.temperature = config.temperature,
                                 !.top_p = {config.top_p},
                                 !.frequency_penalty = {config.frequency_penalty},
                                 !.presence_penalty = {config.presence_penalty}]
    IN IF config.thinking THEN enable_thinking_mode(tuned, "True") ELSE tuned

InitRequest == TIdle /\ RIdle /\ HIdle /\ UIdle

\* line 171: the body of the downstream request is parsed
QReceive ==
    /\ q_pc = "idle"
    /\ q_in' \in ClaudeRequests
    /\ q_pc' = "parsed"
    /\ UNCHANGED <<q_req, n_pc, n_doc, n_msg, n_res, tvars, rvars, uvars>>

\* line 183
QConvert ==
    /\ q_pc = "parsed"
    /\ q_req' = claude_to_openai_request(q_in)
    /\ q_pc' = "converted"
    /\ UNCHANGED <<q_in, n_pc, n_doc, n_msg, n_res, tvars, rvars, uvars>>

\* line 186
QOptimize ==
    /\ q_pc = "converted"
    /\ q_req' = optimize_request(q_req)
    /\ q_pc' = "optimized"
    /\ UNCHANGED <<q_in, n_pc, n_doc, n_msg, n_res, tvars, rvars, uvars>>

\* line 189; the request is then handed to one of the two handlers
QEnableThinking ==
    /\ q_pc = "optimized"
    /\ q_req' = enable_thinking_mode(q_req, "None")
    /\ q_pc' = "sent"
    /\ UNCHANGED <<q_in, n_pc, n_doc, n_msg, n_res, tvars, rvars, uvars>>

NextRequest ==
    \/ QReceive
    \/ QConvert
    \/ QOptimize
    \/ QEnableThinking

SpecRequest == InitRequest /\ [][NextRequest]_vars

(***************************************************************************)
(* Properties of the non-streaming response path, checked under            *)
(* SpecResponse.                                                            *)
(***************************************************************************)
\* the handler has answered the client for a document with a choice
NDone == n_pc = "done"

\* C23: the finish-reason mapping sends stop to end_turn, length to
\* max_tokens, function_call and tool_calls to tool_use, content_filter to
\* stop_sequence and every other reason, a null or missing one included, to
\* end_turn; the streaming mapper and the non-streaming mapper agree on
\* every reason, and the stop_reason of a translated response is that value.
C23_FinishMappingTotalAndShared ==
    /\ \A r \in FinishReasons :
          /\ converter_finish_reason(Get(r)) =
                (CASE r = "stop" -> "end_turn"
                   [] r = "length" -> "max_tokens"
                   [] r \in {"function_call", "tool_calls"} -> "tool_use"
                   [] r = "content_filter" -> "stop_sequence"
                   [] OTHER -> "end_turn")
          /\ converter_finish_reason(Get(r)) = convert_finish_reason(Get(r))
    /\ (NDone /\ n_res.status = 200 /\ n_doc.choices = "one")
          => n_res.stop_reason = convert_finish_reason(Get(n_doc.finish))

\* a response with a reason outside the table, and one with none, both
\* translated to end_turn
C23_Witness ==
    /\ NDone
    /\ n_doc.finish = "eos"
    /\ n_res.status = 200
    /\ n_res.stop_reason = "end_turn"

\* the text of the arguments of some function tool call does not decode
BrokenArguments(response) ==
    /\ response.choices = "one"
    /\ response.message # Absent
    /\ \E i \in 1..Len(response.tool_calls) :
          ~Decodes(ArgumentsOrDefault(response.tool_calls[i]))

\* C24: a tool call whose arguments text fails to decode is translated to a
\* tool_use block with an empty input object; the request is answered with
\* the translated response and not with an error.
C24_BrokenArgumentsGiveEmptyInput ==
    (NDone /\ BrokenArguments(n_doc) /\ n_doc.content # NullContent)
        => /\ n_res.status = 200
           /\ \E i \in 1..Len(n_res.content) :
                 /\ n_res.content[i].type = "tool_use"
                 /\ n_res.content[i].input = {}

\* C25: the non-streaming response path never raises: an empty choices
\* list, a missing message, a null content and a missing usage degrade to
\* an empty content list, end_turn and zero usage.
C25_ResponsePathNeverRaises ==
    (NDone /\ n_doc.tool_calls = <<>>)
        => /\ n_res.status = 200
           /\ (n_doc.choices # "one" \/ n_doc.message = Absent
                 \/ n_doc.content \in {NoContent, NullContent})
                 => n_res.content = <<>>
           /\ n_doc.choices # "one" => n_res.stop_reason = "end_turn"
           /\ ~n_doc.usage.present => n_res.usage = convert_usage(NoUsage)

\* C26: a message with tool calls and no text (content null or missing) is
\* translated to one tool_use block per tool call, in order, and no text
\* block.
C26_ToolCallsWithoutText ==
    (/\ NDone
     /\ n_doc.choices = "one"
     /\ n_doc.message # Absent
     /\ n_doc.content \in {NoContent, NullContent}
     /\ n_doc.tool_calls # <<>>
     /\ ~BrokenArguments(n_doc))
        => /\ n_res.status = 200
           /\ Len(n_res.content) = Len(n_doc.tool_calls)
           /\ \A i \in 1..Len(n_res.content) :
                 /\ n_res.content[i].type = "tool_use"
                 /\ n_res.content[i].id = n_doc.tool_calls[i].id
                 /\ n_res.content[i].name = n_doc.tool_calls[i].name

\* the positions of the delimiters of the first well-formed segment
WellFormed(text) ==
    \E i \in 1..Len(text) :
        /\ text[i] = Open_
        /\ \E j \in (i + 1)..Len(text) : text[j] = Close_

OpenAt(text) ==
    Least({ i \in 1..Len(text) :
              /\ text[i] = Open_
              /\ \E j \in (i + 1)..Len(text) : text[j] = Close_ })

CloseAt(text) ==
    Least({ j \in (OpenAt(text) + 1)..Len(text) : text[j] = Close_ })

Enclosed(text) == SubSeq(text, OpenAt(text) + 1, CloseAt(text) - 1)

Remainder(text) ==
    SubSeq(text, 1, OpenAt(text) - 1) \o SubSeq(text, CloseAt(text) + 1, Len(text))

\* C27: splitting a text with a well-formed segment loses no character: the
\* reasoning is exactly the enclosed text and the answer exactly the rest,
\* the text before the opening delimiter and surrounding whitespace
\* included.
C27_SplitLosesNoCharacter ==
    (n_pc \in {"processed", "done"} /\ n_doc.choices = "one"
        /\ WellFormed(ContentOrEmpty(n_doc)))
        => parse_thinking_response(ContentOrEmpty(n_doc)) =
              << Enclosed(ContentOrEmpty(n_doc)), Remainder(ContentOrEmpty(n_doc)) >>

(***************************************************************************)
(* Properties of the request pipeline, checked under SpecRequest.          *)
(***************************************************************************)
\* some message text of the upstream request holds one of the keywords,
\* whatever the case of its letters
QHas(patterns) ==
    \E i \in 1..Len(q_req.messages) :
        ContainsAny(lower(q_req.messages[i].content), patterns)

QOptimized == q_pc \in {"optimized", "sent"}

QRowApplied(task) ==
    /\ q_req.temperature = task_configs[task].temperature
    /\ q_req.top_p = { task_configs[task].top_p }
    /\ q_req.frequency_penalty = { task_configs[task].frequency_penalty }
    /\ q_req.presence_penalty = { task_configs[task].presence_penalty }

\* C28: a request that declares more than two tools is classified as
\* reasoning whatever its text is, and receives the reasoning row:
\* temperature 0.3, top_p 0.8, thinking forced on.
C28_ManyToolsIsReasoning ==
    (QOptimized /\ ValueOr(q_in.tools, 0) > 2)
        => /\ detect_task_type(q_req) = "reasoning"
           /\ q_req.temperature = 30
           /\ q_req.top_p = {80}
           /\ q_req.thinking

\* C29: the task type is the first category, in the order code, reasoning,
\* creative, default, with a keyword in the lower-cased message texts; the
\* row of that category is applied; a text with a code keyword is code
\* whatever else it matches and however many tools are declared, and the
\* code row sets the thinking flag.
C29_FirstMatchCodeFirst ==
    QOptimized =>
        LET task == IF QHas(code_patterns) THEN "code"
                    ELSE IF QHas(reasoning_patterns) THEN "reasoning"
                    ELSE IF QHas(creative_patterns) THEN "creative"
                    ELSE "default"
        IN /\ detect_task_type(q_req) = task
           /\ QRowApplied(task)
           /\ QHas(code_patterns) => (q_req.temperature = 10 /\ q_req.thinking)

\* a request with a code keyword, a reasoning keyword and three tools was
\* sent with the code row
C29_Witness ==
    /\ q_pc = "sent"
    /\ QHas(code_patterns)
    /\ QHas(reasoning_patterns)
    /\ q_in.tools = {3}
    /\ q_req.temperature = 10
    /\ q_req.thinking

\* the task row of the request sets the thinking flag
QRowForcesThinking ==
    \/ QHas(code_patterns)
    \/ QHas(reasoning_patterns)

\* C30: in the request finally sent the thinking flag is set exactly when
\* the task row forces it (code, reasoning), or a message text matches one
\* of the four keyword patterns, or more than two tools are declared; no
\* step of the pipeline clears a flag an earlier step has set.
C30_ThinkingFlagSetIffAndKept ==
    /\ [](q_pc = "sent" =>
            (q_req.thinking <=>
                \/ QRowForcesThinking
                \/ QHas(thinking_patterns)
                \/ ValueOr(q_in.tools, 0) > 2))
    /\ [][(q_pc \in {"converted", "optimized"} /\ q_req.thinking) => q_req'.thinking]_vars

\* the code row set the flag for a text no keyword pattern matches, with no
\* tools declared, and the last step kept it
C30_Witness ==
    /\ q_pc = "sent"
    /\ q_req.thinking
    /\ QHas(code_patterns)
    /\ ~QHas(thinking_patterns)
    /\ ValueOr(q_in.tools, 0) = 0

\* C31: the request finally sent carries the caller's stop sequences, top_p
\* and max_tokens whenever the caller supplied them, and max_tokens 4096
\* when the caller supplied none; the optimisation step does not replace a
\* caller-supplied top_p.
C31_CallerParametersPassThrough ==
    q_pc = "sent" =>
        /\ q_req.stop = q_in.stop_sequences
        /\ q_req.max_tokens = ValueOr(q_in.max_tokens, 4096)
        /\ q_in.top_p # {} => q_req.top_p = q_in.top_p

(***************************************************************************)
(* Further properties of the registry and of the translator.               *)
(***************************************************************************)
\* C32: every stream that has been admitted and has not left process_stream
\* has a record, under any interleaving with other streams and with the
\* sweep, so the update of chunks_processed never fails and a sweep does not
\* make a translating stream end with an error event.
C32_AdmittedHasRecord ==
    \A s \in Streams : pc[s] \in BodyPlaces => HasRecord(s)

\* C33: every admitted stream terminates: once the upstream body ends or
\* fails the stream leaves process_stream, and then it holds no record and
\* no slot.
C33_AdmittedTerminates ==
    /\ \A s \in Streams :
          (pc[s] \in SlotPlaces) ~> (pc[s] = "done" /\ ~HasRecord(s))
    /\ [](\A s \in Streams : pc[s] = "done" => s \notin Admitted)

\* a stream whose lines gave no event has run to message_stop and left,
\* and its slot is free again
C33_Witness ==
    \E s \in Streams :
        /\ pc[s] = "done"
        /\ ~HasRecord(s)
        /\ Len(out[s]) = 4
        /\ out[s][4].type = "message_stop"
        /\ sem_value = MaxConcurrent

\* C34: once the translator has emitted message_stop or the error event it
\* emits nothing more, and the error event never comes after message_stop.
C34_ClosedIsAbsorbing ==
    /\ [][(t_out # <<>> /\ TLast(t_out).type \in {"message_stop", "error"})
            => t_out' = t_out]_vars
    /\ [](\A i, j \in 1..Len(t_out) :
            (i < j /\ t_out[i].type = "message_stop") => t_out[j].type # "error")

\* the translator has returned after the error event, which followed the
\* events of the lines it was given
C34_Witness ==
    /\ t_pc = "done"
    /\ t_end = "raise"
    /\ TLast(t_out).type = "error"
    /\ Len(t_out) = 2 + MaxChunks + 1

\* C35: the sweep removes exactly the records whose age is strictly greater
\* than max_age_seconds; a record at or below the threshold is kept, the
\* kept records are unchanged, and a stream that has completed has no record
\* for the sweep to see.
C35_SweepRemovesStrictlyOlder ==
    /\ [][cleanup_stale_streams =>
            \A x \in DOMAIN active_streams :
               /\ x \in DOMAIN active_streams' <=>
                     ~(now - active_streams[x].start_time > max_age_seconds)
               /\ x \in DOMAIN active_streams' =>
                     active_streams'[x] = active_streams[x]]_vars
    /\ [](\A s \in Streams : pc[s] = "done" => ~HasRecord(s))

\* the record of a stream in its loop was kept at the threshold and removed
\* one tick later
C35_Witness ==
    \E s \in Streams :
        /\ pc[s] = "loop"
        /\ ~HasRecord(s)
        /\ Len(out[s]) = 2

\* C36: chunks_processed is 0 on admission and goes up by one with every
\* line pulled for the stream, whatever the line is and whether or not it
\* gave an event; no other step changes it.
C36_ChunksProcessedCountsPulls ==
    [][\A s \in Streams :
          /\ (~HasRecord(s) /\ s \in DOMAIN active_streams') =>
                active_streams'[s].chunks_processed = 0
          /\ (HasRecord(s) /\ s \in DOMAIN active_streams') =>
                active_streams'[s].chunks_processed =
                   active_streams[s].chunks_processed + (IF Chunk(s) THEN 1 ELSE 0)]_vars

\* one stream has pulled a malformed line, which gave no event; the other
\* has been admitted and has pulled nothing
C36_Witness ==
    \E s, r \in Streams :
        /\ pc[s] = "loop" /\ HasRecord(s)
        /\ active_streams[s].chunks_processed = 1
        /\ Len(out[s]) = 2
        /\ pc[r] = "loop" /\ HasRecord(r)
        /\ active_streams[r].chunks_processed = 0

\* C37: on the non-streaming path the client is answered with the status of
\* an upstream that refused the request, and with 502 when the upstream
\* could not be reached.
C37_UpstreamStatusReachesClient ==
    /\ n_pc = "refused" => n_res.status = n_doc.status
    /\ n_pc = "unreached" => n_res.status = 502

(***************************************************************************)
(* SpecLimiter: a RateLimiter (src/utils/auth.py) under calls of           *)
(* is_allowed at times that do not decrease.                               *)
(*   l_now        what time.time() reads                                   *)
(*   l_requests   RateLimiter.requests: for every identifier the deque of  *)
(*                the times it recorded                                    *)
(*   l_log        the calls so far, each with its identifier, its time and *)
(*                what it returned                                         *)
(***************************************************************************)
\* now - 60 (line 24)
window_seconds == 60

\* the seconds between two readings of the clock
ClockStep == 30

\* the loop of lines 28-29 with an inclusive comparison
pop_old_inclusive(requests, window_start) ==
    SubSeq(requests,
           Least({ i \in 1..(Len(requests) + 1) :
                     i = Len(requests) + 1 \/ ~(requests[i] <= window_start) }),
           Len(requests))

\* lines 28-29: popleft while the oldest time is before the window
pop_old(requests, window_start) ==
    SubSeq(requests,
           Least({ i \in 1..(Len(requests) + 1) :
                     i = Len(requests) + 1 \/ ~(requests[i] < window_start) }),
           Len(requests))

Call(identifier, time, allowed) ==
    [identifier |-> identifier, time |-> time, allowed |-> allowed]

InitLimiter == TIdle /\ RIdle /\ HIdle /\ UIdle

\* time passes between two calls
LTick ==
    /\ l_now < MaxClockSteps * ClockStep
    /\ l_now' = l_now + ClockStep
    /\ UNCHANGED <<l_requests, l_log, c_now, c_cache, c_access, c_stamp, c_uses,
                   tvars, rvars, hvars>>

\* RateLimiter.is_allowed(identifier)   (lines 21-36)
is_allowed(identifier) ==
    /\ Len(l_log) < MaxCalls
    /\ LET requests == pop_old(l_requests[identifier], l_now - window_seconds)
           allowed == Len(requests) < requests_per_minute
       IN /\ l_requests' = [l_requests EXCEPT ![identifier] =
                               IF allowed THEN Append(requests, l_now) ELSE requests]
          /\ l_log' = Append(l_log, Call(identifier, l_now, allowed))
    /\ UNCHANGED <<l_now, c_now, c_cache, c_access, c_stamp, c_uses,
                   tvars, rvars, hvars>>

NextLimiter ==
    \/ LTick
    \/ \E identifier \in Identifiers : is_allowed(identifier)

SpecLimiter == InitLimiter /\ [][NextLimiter]_vars

\* the calls that were granted to an identifier
Grants(identifier) ==
    { k \in 1..Len(l_log) : l_log[k].identifier = identifier /\ l_log[k].allowed }

\* C38: no identifier is granted more than requests_per_minute calls within
\* 60 seconds; a call is granted exactly when fewer than requests_per_minute
\* calls of the same identifier were granted in the 60 seconds before it, so
\* that a denied call consumes nothing and the calls of another identifier
\* change nothing; a denied call records nothing.
C38_AtMostLimitPerWindow ==
    /\ \A k \in 1..Len(l_log) :
          Cardinality({ j \in Grants(l_log[k].identifier) :
                          /\ l_log[j].time >= l_log[k].time
                          /\ l_log[j].time <= l_log[k].time + window_seconds })
             <= requests_per_minute
    /\ \A k \in 1..Len(l_log) :
          l_log[k].allowed <=>
             Cardinality({ j \in Grants(l_log[k].identifier) :
                             /\ j < k
                             /\ l_log[j].time >= l_log[k].time - window_seconds })
                < requests_per_minute
    /\ \A identifier \in Identifiers :
          /\ Len(l_requests[identifier]) <= Cardinality(Grants(identifier))
          /\ \A i \in 1..Len(l_requests[identifier]) :
                \E k \in Grants(identifier) : l_log[k].time = l_requests[identifier][i]

\* an identifier used its quota, was denied 60 seconds later, when its
\* grants were still inside the window, and was granted again after that
C38_Witness ==
    \E i, j, k \in 1..Len(l_log) :
        /\ i < j /\ j < k
        /\ l_log[i].identifier = l_log[j].identifier
        /\ l_log[j].identifier = l_log[k].identifier
        /\ l_log[i].allowed
        /\ ~l_log[j].allowed
        /\ l_log[j].time = l_log[i].time + window_seconds
        /\ l_log[k].allowed

(***************************************************************************)
(* SpecCache: a MemoryCache (src/utils/cache.py) under get, set, delete,   *)
(* clear and cleanup_expired.                                              *)
(*   c_now      what time.time() reads                                     *)
(*   c_cache    MemoryCache.cache, an OrderedDict: the entries in its      *)
(*              order, each with its key and its expires_at                *)
(*   c_access   MemoryCache.access_times                                   *)
(*   c_uses     the number of uses so far: calls of set, and calls of get  *)
(*              that found their key                                       *)
(*   c_stamp    for every cached key, the number of its last use           *)
(***************************************************************************)
Keys == {"k1", "k2", "k3"}

\* the ttl a caller passes to set, in seconds
Ttls == {1, 2}

Entry(key, expires_at) == [key |-> key, expires_at |-> expires_at]

CachedKeys(cache) == { cache[i].key : i \in 1..Len(cache) }

\* self.cache.pop(key)
cache_pop(cache, key) == SelectSeq(cache, LAMBDA e : e.key # key)

\* dict.pop(key, None)
dict_pop(dict, keys) == [k \in DOMAIN dict \ keys |-> dict[k]]

\* dict[key] = value
dict_put(dict, key, value) ==
    [k \in DOMAIN dict \cup {key} |-> IF k = key THEN value ELSE dict[k]]

\* a get that leaves the entry where it is
keep_position(cache, key) == cache

\* lines 28-29: value = self.cache.pop(key); self.cache[key] = value
move_to_end(cache, key) ==
    cache_pop(cache, key) \o SelectSeq(cache, LAMBDA e : e.key = key)

InitCache == TIdle /\ RIdle /\ HIdle /\ UIdle

\* time passes
CTick ==
    /\ c_now < MaxCacheClock
    /\ c_now' = c_now + 1
    /\ UNCHANGED <<c_cache, c_access, c_stamp, c_uses, l_now, l_requests, l_log,
                   tvars, rvars, hvars>>

\* MemoryCache.get(key)   (lines 24-32); a key that is not there changes
\* nothing
cache_get(key) ==
    /\ key \in CachedKeys(c_cache)
    /\ c_uses < MaxUses
    /\ c_cache' = move_to_end(c_cache, key)
    /\ c_access' = dict_put(c_access, key, c_now)
    /\ c_uses' = c_uses + 1
    /\ c_stamp' = dict_put(c_stamp, key, c_uses + 1)
    /\ UNCHANGED <<c_now, l_now, l_requests, l_log, tvars, rvars, hvars>>

\* MemoryCache.set(key, value, ttl)   (lines 34-48)
cache_set(key, ttl) ==
    /\ c_uses < MaxUses
    /\ LET evict == key \notin CachedKeys(c_cache) /\ Len(c_cache) >= max_size
           oldest_key == c_cache[1].key
           cache == IF key \in CachedKeys(c_cache) THEN cache_pop(c_cache, key)
                    ELSE IF evict THEN cache_pop(c_cache, oldest_key)
                    ELSE c_cache
           access == IF evict THEN dict_pop(c_access, {oldest_key}) ELSE c_access
           stamp == IF evict THEN dict_pop(c_stamp, {oldest_key}) ELSE c_stamp
       IN /\ c_cache' = Append(cache, Entry(key, c_now + ttl))
          /\ c_access' = dict_put(access, key, c_now)
          /\ c_stamp' = dict_put(stamp, key, c_uses + 1)
    /\ c_uses' = c_uses + 1
    /\ UNCHANGED <<c_now, l_now, l_requests, l_log, tvars, rvars, hvars>>

\* MemoryCache.delete(key)   (lines 50-53)
cache_delete(key) ==
    /\ c_cache' = cache_pop(c_cache, key)
    /\ c_access' = dict_pop(c_access, {key})
    /\ c_stamp' = dict_pop(c_stamp, {key})
    /\ UNCHANGED <<c_now, c_uses, l_now, l_requests, l_log, tvars, rvars, hvars>>

\* MemoryCache.clear()   (lines 55-58)
cache_clear ==
    /\ c_cache' = <<>>
    /\ c_access' = <<>>
    /\ c_stamp' = <<>>
    /\ UNCHANGED <<c_now, c_uses, l_now, l_requests, l_log, tvars, rvars, hvars>>

\* MemoryCache.cleanup_expired()   (lines 60-70)
cleanup_expired ==
    LET expired_keys ==
            { c_cache[i].key : i \in { j \in 1..Len(c_cache) : c_cache[j].expires_at < c_now } }
    IN /\ c_cache' = SelectSeq(c_cache, LAMBDA e : e.key \notin expired_keys)
       /\ c_access' = dict_pop(c_access, expired_keys)
       /\ c_stamp' = dict_pop(c_stamp, expired_keys)
       /\ UNCHANGED <<c_now, c_uses, l_now, l_requests, l_log, tvars, rvars, hvars>>

NextCache ==
    \/ CTick
    \/ \E key \in Keys : cache_get(key)
    \/ \E key \in Keys, ttl \in Ttls : cache_set(key, ttl)
    \/ \E key \in Keys : cache_delete(key)
    \/ cache_clear
    \/ cleanup_expired

SpecCache == InitCache /\ [][NextCache]_vars

\* the cached key whose last use is the oldest
LeastRecentlyUsed ==
    CHOOSE k \in CachedKeys(c_cache) :
        \A x \in CachedKeys(c_cache) : c_stamp[k] <= c_stamp[x]

\* C39: the cache never holds more than max_size entries; a set of a new
\* key into a full cache removes the key whose last set or read is the
\* oldest and no other; a set of a key that is there removes nothing.
C39_BoundedAndEvictsLeastRecentlyUsed ==
    /\ [](Len(c_cache) <= max_size
            /\ Cardinality(CachedKeys(c_cache)) = Len(c_cache))
    /\ [][\A key \in Keys, ttl \in Ttls :
            cache_set(key, ttl) =>
               CachedKeys(c_cache') =
                  IF key \in CachedKeys(c_cache) THEN CachedKeys(c_cache)
                  ELSE IF Len(c_cache) = max_size
                  THEN (CachedKeys(c_cache) \ {LeastRecentlyUsed}) \cup {key}
                  ELSE CachedKeys(c_cache) \cup {key}]_vars

\* the cache is full after MaxUses uses, and the entry at its front was read
\* after it was set: its last access is not before its expiry, which is at
\* least a second after the set
C39_Witness ==
    /\ Len(c_cache) = max_size
    /\ c_uses = MaxUses
    /\ c_access[c_cache[1].key] >= c_cache[1].expires_at
    /\ c_stamp[c_cache[1].key] = MaxUses - 1

====
